---- MODULE Spec2Model ----
(***************************************************************************)
(* Model of the code generated by the pleme-codegen derive macros:         *)
(* StatusStateMachine, PaymentEntity, SubscriptionEntity, BrazilianEntity, *)
(* PixPayment and ValidatedEntity.  Strings are sequences of one-character *)
(* strings; enum values are their Debug names.                              *)
(***************************************************************************)
EXTENDS Integers, Sequences, FiniteSets, TLC

VARIABLES
    sm_status,      \* value of an enum deriving StatusStateMachine
    sm_check,       \* last can_transition_to call: [from, to, result] or NoCheck
    now,            \* last reading of chrono::Utc::now()
    obj,            \* which struct the run instantiates
    payment,        \* struct deriving PaymentEntity
    pay_result,     \* Result returned by the last payment operation
    subscription,   \* struct deriving SubscriptionEntity
    sub_result,     \* Result returned by the last subscription operation
    cpf_input,      \* argument of the CPF functions
    cpf_out,        \* their return values
    phone_input,    \* argument of validate_brazilian_phone
    phone_out,      \* return values of the two copies
    sm_pred,        \* last call of the derived status predicates
    crc_input,      \* argument of calculate_crc16
    crc_out,        \* its return value and register trace
    pix,            \* struct deriving PixPayment
    pix_out,        \* payloads returned by generate_qr_payload
    tax_in,         \* arguments of the BrazilianTaxEntity functions
    tax_out,        \* their return values
    btx_in,         \* amount and exemptions of a BrazilianPaymentEntity
    btx_out,        \* BrazilianTaxBreakdown results
    zone_in,        \* arguments of calculate_zone_multiplier
    zone_out,       \* its return value
    pro_in,         \* subscription, clock and argument of calculate_proration
    pro_out,        \* its return value
    brl_in,         \* arguments of format_brl_amount and parse_brl_amount
    brl_out,        \* their return values
    xfer_in,        \* arguments of atomic_transfer
    xfer_out,       \* its result and the calls it made
    lk_ids,         \* entity_ids of each concurrent with_ordered_locks call
    lk_pc,          \* position of each call
    lk_held,        \* advisory locks held by each call's transaction
    rt_in,          \* arguments of retry_transaction
    rt,             \* its loop state and result
    wallet,         \* struct deriving WalletEntity
    w_result,       \* Result returned by the last wallet operation
    fs_in,          \* argument of FromStr::from_str
    fs_out          \* call stack and result of from_str

vars == <<sm_status, sm_check, now, obj, payment, pay_result, subscription,
          sub_result, cpf_input, cpf_out, phone_input, phone_out, sm_pred,
          crc_input, crc_out, pix, pix_out, tax_in, tax_out, btx_in, btx_out,
          zone_in, zone_out, pro_in, pro_out, brl_in, brl_out,
          xfer_in, xfer_out, lk_ids, lk_pc, lk_held, rt_in, rt,
          wallet, w_result, fs_in, fs_out>>

smVars == <<sm_status, sm_check, sm_pred>>
entityVars == <<now, obj, payment, pay_result, subscription, sub_result>>
cpfVars == <<cpf_input, cpf_out>>
phoneVars == <<phone_input, phone_out>>
crcVars == <<crc_input, crc_out>>
pixVars == <<pix, pix_out>>
taxVars == <<tax_in, tax_out>>
btxVars == <<btx_in, btx_out>>
zoneVars == <<zone_in, zone_out>>
proVars == <<pro_in, pro_out>>
brlVars == <<brl_in, brl_out>>
xferVars == <<xfer_in, xfer_out>>
lockVars == <<lk_ids, lk_pc, lk_held>>
retryVars == <<rt_in, rt>>
walletVars == <<wallet, w_result>>
fromStrVars == <<fs_in, fs_out>>
extVars == <<xferVars, lockVars, retryVars, walletVars, fromStrVars>>
docVars == <<smVars, entityVars, cpfVars, phoneVars>>
pureVars == <<crcVars, pixVars, taxVars, btxVars, zoneVars, proVars, brlVars>>
nonXferVars == <<docVars, pureVars, lockVars, retryVars, walletVars, fromStrVars>>
nonLockVars == <<docVars, pureVars, xferVars, retryVars, walletVars, fromStrVars>>
nonRetryVars == <<docVars, pureVars, xferVars, lockVars, walletVars, fromStrVars>>
nonWalletVars == <<docVars, pureVars, xferVars, lockVars, retryVars, fromStrVars>>
nonFromStrVars == <<docVars, pureVars, xferVars, lockVars, retryVars, walletVars>>
nonEntityVars == <<smVars, cpfVars, phoneVars, crcVars, pixVars, taxVars,
                   btxVars, zoneVars, proVars, brlVars, extVars>>
nonSmVars == <<entityVars, cpfVars, phoneVars, crcVars, pixVars, taxVars,
               btxVars, zoneVars, proVars, brlVars, extVars>>
nonCpfVars == <<smVars, entityVars, phoneVars, crcVars, pixVars, taxVars,
                btxVars, zoneVars, proVars, brlVars, extVars>>
nonPhoneVars == <<smVars, entityVars, cpfVars, crcVars, pixVars, taxVars,
                  btxVars, zoneVars, proVars, brlVars, extVars>>
nonCrcVars == <<docVars, pixVars, taxVars, btxVars, zoneVars, proVars, brlVars, extVars>>
nonPixVars == <<docVars, crcVars, taxVars, btxVars, zoneVars, proVars, brlVars, extVars>>
nonTaxVars == <<docVars, crcVars, pixVars, btxVars, zoneVars, proVars, brlVars, extVars>>
nonBtxVars == <<docVars, crcVars, pixVars, taxVars, zoneVars, proVars, brlVars, extVars>>
nonZoneVars == <<docVars, crcVars, pixVars, taxVars, btxVars, proVars, brlVars, extVars>>
nonProVars == <<docVars, crcVars, pixVars, taxVars, btxVars, zoneVars, brlVars, extVars>>
nonBrlVars == <<docVars, crcVars, pixVars, taxVars, btxVars, zoneVars, proVars, extVars>>

\* Option<T>: None and Some(x)
None == <<>>

Some(x) == <<x>>

\* placeholder where a result carries no status
NoStatus == "-"

(***************************************************************************)
(* StatusStateMachine (status_patterns.rs)                                  *)
(***************************************************************************)

StatusNames ==
    {"Pending", "AwaitingPayment", "PaymentProcessing", "Authorized",
     "Captured", "Paid", "Processing", "PartiallyFulfilled", "Fulfilled",
     "Shipped", "PartiallyShipped", "OutForDelivery", "Delivered",
     "Cancelled", "Refunded", "PartiallyRefunded", "Disputed", "Failed",
     "Expired", "Returned", "Active", "Inactive", "Suspended", "Deleted"}

\* The match on (from.as_str(), to.as_str()) of can_transition_to, arm by arm.
transition_match(m) ==
    CASE m \in {<<"Pending", "AwaitingPayment">>, <<"Pending", "PaymentProcessing">>,
                <<"Pending", "Paid">>, <<"Pending", "Failed">>,
                <<"Pending", "Cancelled">>} -> TRUE
      [] m \in {<<"AwaitingPayment", "PaymentProcessing">>, <<"AwaitingPayment", "Paid">>,
                <<"AwaitingPayment", "Failed">>, <<"AwaitingPayment", "Cancelled">>,
                <<"AwaitingPayment", "Expired">>} -> TRUE
      [] m \in {<<"PaymentProcessing", "Paid">>, <<"PaymentProcessing", "Failed">>,
                <<"PaymentProcessing", "Cancelled">>,
                <<"PaymentProcessing", "Authorized">>} -> TRUE
      [] m \in {<<"Authorized", "Captured">>, <<"Authorized", "Cancelled">>,
                <<"Authorized", "Expired">>} -> TRUE
      [] m \in {<<"Captured", "Processing">>, <<"Captured", "Refunded">>} -> TRUE
      [] m \in {<<"Paid", "Processing">>, <<"Paid", "Cancelled">>,
                <<"Paid", "Refunded">>} -> TRUE
      [] m \in {<<"Processing", "Fulfilled">>, <<"Processing", "PartiallyFulfilled">>,
                <<"Processing", "Cancelled">>, <<"Processing", "Failed">>} -> TRUE
      [] m \in {<<"PartiallyFulfilled", "Fulfilled">>,
                <<"PartiallyFulfilled", "Cancelled">>} -> TRUE
      [] m \in {<<"Fulfilled", "Shipped">>, <<"Fulfilled", "PartiallyShipped">>} -> TRUE
      [] m \in {<<"PartiallyShipped", "Shipped">>} -> TRUE
      [] m \in {<<"Shipped", "OutForDelivery">>, <<"Shipped", "Delivered">>,
                <<"Shipped", "Returned">>} -> TRUE
      [] m \in {<<"OutForDelivery", "Delivered">>, <<"OutForDelivery", "Returned">>} -> TRUE
      [] m \in {<<"Delivered", "Refunded">>, <<"Delivered", "PartiallyRefunded">>,
                <<"Delivered", "Disputed">>, <<"Delivered", "Returned">>} -> TRUE
      [] m \in {<<"PartiallyRefunded", "Refunded">>,
                <<"PartiallyRefunded", "Disputed">>} -> TRUE
      [] m \in {<<"Returned", "Refunded">>} -> TRUE
      [] m \in {<<"Active", "Inactive">>, <<"Active", "Suspended">>,
                <<"Active", "Deleted">>} -> TRUE
      [] m \in {<<"Inactive", "Active">>, <<"Inactive", "Deleted">>} -> TRUE
      [] m \in {<<"Suspended", "Active">>, <<"Suspended", "Deleted">>} -> TRUE
      [] OTHER -> FALSE

\* can_transition_to with an extra arm ("Cancelled", "Pending") => true
can_transition_to_reopen(self, new_status) ==
    IF self = new_status THEN TRUE
    ELSE transition_match(<<self, new_status>>)
            \/ <<self, new_status>> = <<"Cancelled", "Pending">>

\* can_transition_to without the self-transition shortcut
can_transition_to_noself(self, new_status) ==
    transition_match(<<self, new_status>>)

\* pub fn can_transition_to(&self, new_status) -> bool: the discriminant
\* comparison, then the match on the pair of Debug names.
can_transition_to(self, new_status) ==
    IF self = new_status THEN TRUE
    ELSE LET from == self
             to == new_status
         IN transition_match(<<from, to>>)

\* pub fn is_final_status(&self) -> bool
is_final_status(self) ==
    self \in {"Delivered", "Cancelled", "Refunded", "Failed",
              "Expired", "Disputed", "Deleted", "Returned"}

\* can_be_cancelled with the fulfilment statuses in its list
can_be_cancelled_through_fulfilment(self) ==
    IF is_final_status(self) THEN FALSE
    ELSE self \in {"Pending", "AwaitingPayment", "PaymentProcessing",
                   "Paid", "Processing", "Authorized",
                   "PartiallyFulfilled", "Fulfilled"}

\* pub fn can_be_cancelled(&self) -> bool
can_be_cancelled(self) ==
    IF is_final_status(self) THEN FALSE
    ELSE self \in {"Pending", "AwaitingPayment", "PaymentProcessing",
                   "Paid", "Processing", "Authorized"}

\* pub fn can_be_refunded(&self) -> bool
can_be_refunded(self) ==
    self \in {"Paid", "Captured", "Processing", "PartiallyFulfilled", "Fulfilled",
              "Shipped", "PartiallyShipped", "OutForDelivery", "Delivered",
              "PartiallyRefunded", "Returned"}

NoCheck == [from |-> NoStatus, to |-> NoStatus, result |-> FALSE]

\* A caller asks whether the current status may change to new_status.
CheckTransition(new_status) ==
    /\ sm_check' = [from |-> sm_status, to |-> new_status,
                    result |-> can_transition_to(sm_status, new_status)]
    /\ UNCHANGED <<sm_status, sm_pred, nonSmVars>>

\* The caller performs the change it was just permitted.
ApplyTransition ==
    /\ sm_check.from = sm_status
    /\ sm_check.result
    /\ sm_status' = sm_check.to
    /\ sm_check' = NoCheck
    /\ UNCHANGED <<sm_pred, nonSmVars>>

NoPred == [fn |-> "-", self |-> NoStatus, result |-> FALSE]

\* A caller asks whether the current status can be cancelled.
CallCanBeCancelled ==
    /\ sm_pred' = [fn |-> "can_be_cancelled", self |-> sm_status,
                   result |-> can_be_cancelled(sm_status)]
    /\ UNCHANGED <<sm_status, sm_check, nonSmVars>>

\* A caller asks whether the current status can be refunded.
CallCanBeRefunded ==
    /\ sm_pred' = [fn |-> "can_be_refunded", self |-> sm_status,
                   result |-> can_be_refunded(sm_status)]
    /\ UNCHANGED <<sm_status, sm_check, nonSmVars>>

(***************************************************************************)
(* Time.  chrono::Utc::now() is read from the variable now; a call is one  *)
(* instant, and time passes between calls.  Durations are in days.          *)
(***************************************************************************)

MaxTime == 70

TickSteps == {10, 35}

Tick(d) ==
    /\ now + d <= MaxTime
    /\ now' = now + d
    /\ UNCHANGED <<obj, payment, pay_result, subscription, sub_result, nonEntityVars>>

(***************************************************************************)
(* PaymentEntity (payment_patterns.rs)                                      *)
(***************************************************************************)

PaymentStatus == {"Pending", "Processing", "Completed", "Failed", "Refunded", "Cancelled"}

Reasons == {"timeout", "declined"}

Ok(op) == [op |-> op, ok |-> TRUE, from |-> NoStatus, to |-> NoStatus]

\* PaymentError::InvalidStateTransition { from, to } and
\* PaymentError::InvalidSubscriptionStateTransition { from, to }
InvalidStateTransition(op, from, to) == [op |-> op, ok |-> FALSE, from |-> from, to |-> to]

NoResult == [op |-> NoStatus, ok |-> TRUE, from |-> NoStatus, to |-> NoStatus]

\* TestPayment::new(): a Pending payment stamped with the construction time
NewPayment ==
    [status |-> "Pending", completed_at |-> None, failed_at |-> None,
     failure_reason |-> None, updated_at |-> 0]

\* pub fn mark_processing(&mut self)
mark_processing ==
    /\ obj = "Payment"
    /\ IF payment.status = "Pending"
       THEN /\ payment' = [payment EXCEPT !.status = "Processing", !.updated_at = now]
            /\ pay_result' = Ok("mark_processing")
       ELSE /\ pay_result' = InvalidStateTransition("mark_processing", payment.status, "Processing")
            /\ UNCHANGED payment
    /\ UNCHANGED <<now, obj, subscription, sub_result, nonEntityVars>>

\* pub fn mark_completed(&mut self)
mark_completed ==
    /\ obj = "Payment"
    /\ IF payment.status # "Processing" /\ payment.status # "Pending"
       THEN /\ pay_result' = InvalidStateTransition("mark_completed", payment.status, "Completed")
            /\ UNCHANGED payment
       ELSE /\ payment' = [payment EXCEPT !.status = "Completed", !.completed_at = Some(now),
                                           !.updated_at = now]
            /\ pay_result' = Ok("mark_completed")
    /\ UNCHANGED <<now, obj, subscription, sub_result, nonEntityVars>>

\* mark_failed writing failure_reason before its status check
mark_failed_early_write(reason) ==
    /\ obj = "Payment"
    /\ IF payment.status = "Completed" \/ payment.status = "Refunded"
       THEN /\ pay_result' = InvalidStateTransition("mark_failed", payment.status, "Failed")
            /\ payment' = [payment EXCEPT !.failure_reason = Some(reason)]
       ELSE /\ payment' = [payment EXCEPT !.status = "Failed", !.failed_at = Some(now),
                                           !.failure_reason = Some(reason), !.updated_at = now]
            /\ pay_result' = Ok("mark_failed")
    /\ UNCHANGED <<now, obj, subscription, sub_result, nonEntityVars>>

\* pub fn mark_failed(&mut self, reason: String)
mark_failed(reason) ==
    /\ obj = "Payment"
    /\ IF payment.status = "Completed" \/ payment.status = "Refunded"
       THEN /\ pay_result' = InvalidStateTransition("mark_failed", payment.status, "Failed")
            /\ UNCHANGED payment
       ELSE /\ payment' = [payment EXCEPT !.status = "Failed", !.failed_at = Some(now),
                                           !.failure_reason = Some(reason), !.updated_at = now]
            /\ pay_result' = Ok("mark_failed")
    /\ UNCHANGED <<now, obj, subscription, sub_result, nonEntityVars>>

\* pub fn can_refund(&self) -> bool
can_refund == payment.status = "Completed"

\* mark_refunded without the updated_at assignment
mark_refunded_no_touch ==
    /\ obj = "Payment"
    /\ IF ~can_refund
       THEN /\ pay_result' = InvalidStateTransition("mark_refunded", payment.status, "Refunded")
            /\ UNCHANGED payment
       ELSE /\ payment' = [payment EXCEPT !.status = "Refunded"]
            /\ pay_result' = Ok("mark_refunded")
    /\ UNCHANGED <<now, obj, subscription, sub_result, nonEntityVars>>

\* pub fn mark_refunded(&mut self)
mark_refunded ==
    /\ obj = "Payment"
    /\ IF ~can_refund
       THEN /\ pay_result' = InvalidStateTransition("mark_refunded", payment.status, "Refunded")
            /\ UNCHANGED payment
       ELSE /\ payment' = [payment EXCEPT !.status = "Refunded", !.updated_at = now]
            /\ pay_result' = Ok("mark_refunded")
    /\ UNCHANGED <<now, obj, subscription, sub_result, nonEntityVars>>

(***************************************************************************)
(* BrazilianPaymentEntity (brazilian_payment_entity.rs)                     *)
(***************************************************************************)

Repeat(c, n) == [i \in 1..n |-> c]

EndToEndIds == {Repeat("E", 31), Repeat("E", 32), Repeat("E", 33)}

\* pub fn process_pix_confirmation(&mut self, end_to_end_id, psp_reference);
\* set_status and set_updated_at store into the status and updated_at fields.
process_pix_confirmation(end_to_end_id) ==
    /\ obj = "Payment"
    /\ IF Len(end_to_end_id) # 32
       THEN /\ pay_result' = [op |-> "process_pix_confirmation", ok |-> FALSE,
                              from |-> NoStatus, to |-> NoStatus]
            /\ UNCHANGED payment
       ELSE /\ payment' = [payment EXCEPT !.status = "Completed", !.updated_at = now]
            /\ pay_result' = Ok("process_pix_confirmation")
    /\ UNCHANGED <<now, obj, subscription, sub_result, nonEntityVars>>

(***************************************************************************)
(* SubscriptionEntity (subscription_patterns.rs)                            *)
(***************************************************************************)

SubscriptionStatus == {"Active", "Trialing", "Paused", "Cancelled", "PastDue"}

BillingInterval == {"Monthly", "Quarterly", "Yearly"}

\* chrono::Duration::days(30 | 90 | 365) of the interval
IntervalDays(interval) ==
    CASE interval = "Monthly" -> 30
      [] interval = "Quarterly" -> 90
      [] interval = "Yearly" -> 365

TrialDays == {7}

\* A subscription as constructed: Active, first billing period starting now
NewSubscription(interval) ==
    [status |-> "Active", interval |-> interval,
     current_period_start |-> 0, current_period_end |-> IntervalDays(interval),
     trial_start |-> None, trial_end |-> None, trial_converted_at |-> None,
     pause_collection |-> None, pause_reason |-> None,
     cancelled_at |-> None, cancellation_reason |-> None,
     updated_at |-> 0]

\* pub fn can_cancel(&self) -> bool
can_cancel == subscription.status \in {"Active", "Trialing", "PastDue"}

\* pub fn can_resume(&self) -> bool
can_resume ==
    \/ subscription.status = "Paused"
    \/ (subscription.status = "Cancelled" /\ subscription.current_period_end > now)

\* pub fn next_billing_date(&self)
next_billing_date == subscription.current_period_end + IntervalDays(subscription.interval)

\* pub fn start_trial(&mut self, trial_days: i64)
start_trial(trial_days) ==
    /\ obj = "Subscription"
    /\ IF subscription.status # "Active" /\ subscription.status # "Trialing"
       THEN /\ sub_result' = InvalidStateTransition("start_trial", subscription.status, "Trialing")
            /\ UNCHANGED subscription
       ELSE /\ subscription' = [subscription EXCEPT !.status = "Trialing",
                                    !.trial_start = Some(now), !.trial_end = Some(now + trial_days),
                                    !.updated_at = now]
            /\ sub_result' = Ok("start_trial")
    /\ UNCHANGED <<now, obj, payment, pay_result, nonEntityVars>>

\* pub fn convert_trial_to_paid(&mut self)
convert_trial_to_paid ==
    /\ obj = "Subscription"
    /\ IF subscription.status # "Trialing"
       THEN /\ sub_result' = InvalidStateTransition("convert_trial_to_paid", subscription.status, "Active")
            /\ UNCHANGED subscription
       ELSE /\ subscription' = [subscription EXCEPT !.status = "Active",
                                    !.trial_converted_at = Some(now), !.updated_at = now]
            /\ sub_result' = Ok("convert_trial_to_paid")
    /\ UNCHANGED <<now, obj, payment, pay_result, nonEntityVars>>

\* pub fn pause(&mut self, reason: Option<String>)
pause(reason) ==
    /\ obj = "Subscription"
    /\ IF subscription.status \notin {"Active", "Trialing"}
       THEN /\ sub_result' = InvalidStateTransition("pause", subscription.status, "Paused")
            /\ UNCHANGED subscription
       ELSE /\ subscription' = [subscription EXCEPT !.status = "Paused",
                                    !.pause_collection = Some(subscription.current_period_end),
                                    !.pause_reason = reason, !.updated_at = now]
            /\ sub_result' = Ok("pause")
    /\ UNCHANGED <<now, obj, payment, pay_result, nonEntityVars>>

\* resume that accepts every status can_resume accepts
resume_when_can_resume ==
    /\ obj = "Subscription"
    /\ IF ~can_resume
       THEN /\ sub_result' = InvalidStateTransition("resume", subscription.status, "Active")
            /\ UNCHANGED subscription
       ELSE /\ subscription' =
                 [subscription EXCEPT !.status = "Active", !.pause_collection = None,
                    !.pause_reason = None, !.updated_at = now]
            /\ sub_result' = Ok("resume")
    /\ UNCHANGED <<now, obj, payment, pay_result, nonEntityVars>>

\* pub fn resume(&mut self)
resume ==
    /\ obj = "Subscription"
    /\ IF subscription.status # "Paused"
       THEN /\ sub_result' = InvalidStateTransition("resume", subscription.status, "Active")
            /\ UNCHANGED subscription
       ELSE /\ subscription' =
                 [subscription EXCEPT !.status = "Active", !.pause_collection = None,
                    !.pause_reason = None, !.updated_at = now,
                    !.current_period_start =
                        IF subscription.current_period_end < now THEN now ELSE @,
                    !.current_period_end =
                        IF subscription.current_period_end < now THEN next_billing_date ELSE @]
            /\ sub_result' = Ok("resume")
    /\ UNCHANGED <<now, obj, payment, pay_result, nonEntityVars>>

\* pub fn cancel(&mut self, reason: Option<String>)
cancel(reason) ==
    /\ obj = "Subscription"
    /\ IF ~can_cancel
       THEN /\ sub_result' = InvalidStateTransition("cancel", subscription.status, "Cancelled")
            /\ UNCHANGED subscription
       ELSE /\ subscription' = [subscription EXCEPT !.status = "Cancelled",
                                    !.cancelled_at = Some(now), !.cancellation_reason = reason,
                                    !.updated_at = now]
            /\ sub_result' = Ok("cancel")
    /\ UNCHANGED <<now, obj, payment, pay_result, nonEntityVars>>

\* pub fn mark_past_due(&mut self)
mark_past_due ==
    /\ obj = "Subscription"
    /\ IF subscription.status # "Active"
       THEN /\ sub_result' = InvalidStateTransition("mark_past_due", subscription.status, "PastDue")
            /\ UNCHANGED subscription
       ELSE /\ subscription' = [subscription EXCEPT !.status = "PastDue", !.updated_at = now]
            /\ sub_result' = Ok("mark_past_due")
    /\ UNCHANGED <<now, obj, payment, pay_result, nonEntityVars>>

\* pub fn update_billing_period(&mut self)
update_billing_period ==
    /\ obj = "Subscription"
    /\ LET rolled == subscription.current_period_end <= now
           new_start == IF rolled THEN subscription.current_period_end
                        ELSE subscription.current_period_start
           new_end == IF rolled THEN new_start + IntervalDays(subscription.interval)
                      ELSE subscription.current_period_end
       IN subscription' =
            [subscription EXCEPT !.current_period_start = new_start,
                !.current_period_end = new_end,
                !.status = IF @ = "PastDue" THEN "Active" ELSE @,
                !.updated_at = now]
    /\ sub_result' = Ok("update_billing_period")
    /\ UNCHANGED <<now, obj, payment, pay_result, nonEntityVars>>

(***************************************************************************)
(* Document strings                                                         *)
(***************************************************************************)

DigitChars == <<"0", "1", "2", "3", "4", "5", "6", "7", "8", "9">>

Chr(n) == DigitChars[n + 1]

\* char::is_ascii_digit
is_ascii_digit(c) == \E n \in 0..9 : DigitChars[n + 1] = c

\* char::to_digit(10).unwrap_or(0)
to_digit(c) == IF is_ascii_digit(c) THEN CHOOSE n \in 0..9 : DigitChars[n + 1] = c ELSE 0

\* s.chars().filter(|c| c.is_ascii_digit()).collect()
FilterDigits(s) == SelectSeq(s, is_ascii_digit)

\* digits.chars().all(|c| c == digits.chars().next().unwrap())
AllSame(digits) == \A i \in 1..Len(digits) : digits[i] = digits[1]

\* (0..n).map(|i| digits[i] * (w0 - i as u32)).sum()
RECURSIVE WeightedSum(_, _, _)
WeightedSum(d, n, w0) ==
    IF n = 0 THEN 0
    ELSE WeightedSum(d, n - 1, w0) + d[n] * (w0 - (n - 1))

\* the check digit without the 0 | 1 arm
CheckDigit_no_zero_arm(sum) == 11 - (sum % 11)

\* match sum % 11 { 0 | 1 => 0, n => 11 - n }
CheckDigit(sum) == IF sum % 11 \in {0, 1} THEN 0 ELSE 11 - (sum % 11)

(***************************************************************************)
(* CPF: BrazilianEntity (lib.rs), PixPayment (payment_patterns.rs),         *)
(* ValidatedEntity (validation_patterns.rs), utilities (brazilian.rs)       *)
(***************************************************************************)

\* validate_cpf without the all-same-digit rejection
validate_cpf_no_same_check(cpf) ==
    LET digits == FilterDigits(cpf) IN
    IF Len(digits) # 11 THEN FALSE
    ELSE LET d == [i \in 1..11 |-> to_digit(digits[i])]
             digit1 == CheckDigit(WeightedSum(d, 9, 10))
         IN IF d[10] # digit1 THEN FALSE
            ELSE d[11] = CheckDigit(WeightedSum(d, 10, 11))

\* BrazilianEntity: pub fn validate_cpf(cpf: &str) -> bool
validate_cpf(cpf) ==
    LET digits == FilterDigits(cpf) IN
    IF Len(digits) # 11 THEN FALSE
    ELSE IF AllSame(digits) THEN FALSE
    ELSE LET d == [i \in 1..11 |-> to_digit(digits[i])]
             sum1 == WeightedSum(d, 9, 10)
             digit1 == CheckDigit(sum1)
         IN IF d[10] # digit1 THEN FALSE
            ELSE LET sum2 == WeightedSum(d, 10, 11)
                     digit2 == CheckDigit(sum2)
                     is_valid == d[11] = digit2
                 IN is_valid

\* PixPayment: fn validate_cpf(cpf: &str) -> bool
PixPayment_validate_cpf(cpf) ==
    LET digits == FilterDigits(cpf) IN
    IF Len(digits) # 11 THEN FALSE
    ELSE IF AllSame(digits) THEN FALSE
    ELSE LET d == [i \in 1..11 |-> to_digit(digits[i])]
             sum1 == WeightedSum(d, 9, 10)
             digit1 == CheckDigit(sum1)
         IN IF d[10] # digit1 THEN FALSE
            ELSE LET sum2 == WeightedSum(d, 10, 11)
                     digit2 == CheckDigit(sum2)
                 IN d[11] = digit2

\* ValidatedEntity: pub fn is_valid_cpf(cpf: &str) -> bool
is_valid_cpf(cpf) ==
    LET digits == FilterDigits(cpf) IN
    IF Len(digits) # 11 THEN FALSE
    ELSE IF AllSame(digits) THEN FALSE
    ELSE LET d == [i \in 1..11 |-> to_digit(digits[i])]
             sum1 == WeightedSum(d, 9, 10)
             digit1 == CheckDigit(sum1)
         IN IF d[10] # digit1 THEN FALSE
            ELSE LET sum2 == WeightedSum(d, 10, 11)
                     digit2 == CheckDigit(sum2)
                 IN d[11] = digit2

\* format_cpf placing the dash one position early
format_cpf_dash_early(cpf) ==
    LET digits == FilterDigits(cpf) IN
    IF Len(digits) = 11
    THEN SubSeq(digits, 1, 3) \o <<".">> \o SubSeq(digits, 4, 6) \o <<".">>
            \o SubSeq(digits, 7, 8) \o <<"-">> \o SubSeq(digits, 9, 11)
    ELSE cpf

\* BrazilianEntity: pub fn format_cpf(cpf: &str) -> String
format_cpf(cpf) ==
    LET digits == FilterDigits(cpf) IN
    IF Len(digits) = 11
    THEN SubSeq(digits, 1, 3) \o <<".">> \o SubSeq(digits, 4, 6) \o <<".">>
            \o SubSeq(digits, 7, 9) \o <<"-">> \o SubSeq(digits, 10, 11)
    ELSE cpf

\* brazilian.rs utilities: pub fn format_cpf(cpf: &str) -> String
brazilian_format_cpf(cpf) ==
    LET digits == FilterDigits(cpf) IN
    IF Len(digits) = 11
    THEN SubSeq(digits, 1, 3) \o <<".">> \o SubSeq(digits, 4, 6) \o <<".">>
            \o SubSeq(digits, 7, 9) \o <<"-">> \o SubSeq(digits, 10, 11)
    ELSE cpf

NumStems == 4

GoldenStems == << <<1, 1, 1, 4, 4, 4, 7, 7, 7>>, <<1, 2, 3, 4, 5, 6, 7, 8, 9>>,
                  <<1, 1, 1, 1, 1, 1, 1, 1, 1>> >>

\* the first nine digits of the k-th CPF tried
Stem(k) ==
    IF k <= Len(GoldenStems) THEN GoldenStems[k]
    ELSE [i \in 1..9 |-> (k * i + i * i) % 10]

CpfDigits(k, a, b) ==
    [i \in 1..11 |-> Chr(IF i <= 9 THEN Stem(k)[i] ELSE IF i = 10 THEN a ELSE b)]

CpfStyles == {"digits", "punctuated", "short", "long", "labelled", "word"}

Styled(d, style) ==
    CASE style = "digits" -> d
      [] style = "punctuated" ->
            <<d[1], d[2], d[3], ".", d[4], d[5], d[6], ".", d[7], d[8], d[9], "-", d[10], d[11]>>
      [] style = "short" -> SubSeq(d, 1, 10)
      [] style = "long" -> d \o <<"0">>
      [] style = "labelled" -> <<"c", "p", "f", " ">> \o d
      [] style = "word" -> <<"i", "n", "v", "a", "l", "i", "d">>

CpfInputs ==
    {Styled(CpfDigits(k, a, b), style) :
        k \in 1..NumStems, a \in 0..9, b \in 0..9, style \in CpfStyles}

NoCpfOut ==
    [called |-> {}, validate_cpf |-> FALSE, pix_validate_cpf |-> FALSE,
     is_valid_cpf |-> FALSE, format_cpf |-> <<>>, brazilian_format_cpf |-> <<>>,
     format_twice |-> <<>>]

CallValidateCpf ==
    /\ "validate_cpf" \notin cpf_out.called
    /\ cpf_out' = [cpf_out EXCEPT !.called = @ \cup {"validate_cpf"},
                                  !.validate_cpf = validate_cpf(cpf_input)]
    /\ UNCHANGED <<cpf_input, nonCpfVars>>

CallPixValidateCpf ==
    /\ "pix_validate_cpf" \notin cpf_out.called
    /\ cpf_out' = [cpf_out EXCEPT !.called = @ \cup {"pix_validate_cpf"},
                                  !.pix_validate_cpf = PixPayment_validate_cpf(cpf_input)]
    /\ UNCHANGED <<cpf_input, nonCpfVars>>

CallIsValidCpf ==
    /\ "is_valid_cpf" \notin cpf_out.called
    /\ cpf_out' = [cpf_out EXCEPT !.called = @ \cup {"is_valid_cpf"},
                                  !.is_valid_cpf = is_valid_cpf(cpf_input)]
    /\ UNCHANGED <<cpf_input, nonCpfVars>>

CallFormatCpf ==
    /\ "format_cpf" \notin cpf_out.called
    /\ cpf_out' = [cpf_out EXCEPT !.called = @ \cup {"format_cpf"},
                                  !.format_cpf = format_cpf(cpf_input)]
    /\ UNCHANGED <<cpf_input, nonCpfVars>>

CallBrazilianFormatCpf ==
    /\ "brazilian_format_cpf" \notin cpf_out.called
    /\ cpf_out' = [cpf_out EXCEPT !.called = @ \cup {"brazilian_format_cpf"},
                                  !.brazilian_format_cpf = brazilian_format_cpf(cpf_input)]
    /\ UNCHANGED <<cpf_input, nonCpfVars>>

\* format_cpf applied to its own output
CallFormatCpfTwice ==
    /\ "format_cpf" \in cpf_out.called
    /\ "format_twice" \notin cpf_out.called
    /\ cpf_out' = [cpf_out EXCEPT !.called = @ \cup {"format_twice"},
                                  !.format_twice = format_cpf(cpf_out.format_cpf)]
    /\ UNCHANGED <<cpf_input, nonCpfVars>>

(***************************************************************************)
(* Phone: BrazilianEntity (lib.rs) and the utilities of brazilian.rs        *)
(***************************************************************************)

\* BrazilianEntity: pub fn validate_brazilian_phone(phone: &str) -> bool
validate_brazilian_phone(phone) ==
    LET digits == FilterDigits(phone)
        is_valid == Len(digits) = 10 \/ Len(digits) = 11
    IN is_valid

\* digits.starts_with("55")
StartsWith55(digits) == Len(digits) >= 2 /\ digits[1] = "5" /\ digits[2] = "5"

\* brazilian.rs utilities: pub fn validate_brazilian_phone(phone: &str) -> bool
brazilian_validate_brazilian_phone(phone) ==
    LET digits == FilterDigits(phone) IN
    CASE Len(digits) = 10 -> TRUE
      [] Len(digits) = 11 ->
            LET first_digit == IF Len(digits) >= 3 THEN digits[3] ELSE "0"
            IN to_digit(first_digit) >= 6
      [] Len(digits) = 13 -> StartsWith55(digits)
      [] OTHER -> FALSE

MinPhoneLen == 9

MaxPhoneLen == 14

PhonePrefixes == {<<"5", "5">>, <<"1", "1">>}

PhoneStyles == {"digits", "punctuated"}

\* n digits: a two-digit prefix, the digit t, then padding
PhoneDigits(prefix, t, n) == prefix \o <<Chr(t)>> \o [i \in 1..(n - 3) |-> Chr((i + t) % 10)]

PhoneStyled(d, style) ==
    IF style = "digits" THEN d
    ELSE <<"+">> \o SubSeq(d, 1, 2) \o <<" ", "(">> \o SubSeq(d, 3, 4) \o <<")", " ">>
            \o SubSeq(d, 5, Len(d))

PhoneInputs ==
    {PhoneStyled(PhoneDigits(prefix, t, n), style) :
        prefix \in PhonePrefixes, t \in 0..9, n \in MinPhoneLen..MaxPhoneLen,
        style \in PhoneStyles}

NoPhoneOut == [called |-> {}, validate_brazilian_phone |-> FALSE, brazilian |-> FALSE]

CallValidateBrazilianPhone ==
    /\ "validate_brazilian_phone" \notin phone_out.called
    /\ phone_out' = [phone_out EXCEPT !.called = @ \cup {"validate_brazilian_phone"},
                        !.validate_brazilian_phone = validate_brazilian_phone(phone_input)]
    /\ UNCHANGED <<phone_input, nonPhoneVars>>

CallBrazilianValidateBrazilianPhone ==
    /\ "brazilian" \notin phone_out.called
    /\ phone_out' = [phone_out EXCEPT !.called = @ \cup {"brazilian"},
                        !.brazilian = brazilian_validate_brazilian_phone(phone_input)]
    /\ UNCHANGED <<phone_input, nonPhoneVars>>

(***************************************************************************)
(* PixPayment: CRC16 (payment_patterns.rs)                                  *)
(***************************************************************************)

\* printable ASCII in code order; AsciiTable[1] is the character of code 32
\* (the double quote, the backslash and the backtick are written by name)
AsciiTable ==
    <<" ", "!", "quote", "#", "$", "%", "&", "'", "(", ")", "*", "+", ",", "-",
      ".", "/", "0", "1", "2", "3", "4", "5", "6", "7", "8", "9", ":", ";",
      "<", "=", ">", "?", "@", "A", "B", "C", "D", "E", "F", "G", "H", "I",
      "J", "K", "L", "M", "N", "O", "P", "Q", "R", "S", "T", "U", "V", "W",
      "X", "Y", "Z", "[", "backslash", "]", "^", "_", "backtick", "a", "b", "c",
      "d", "e",
      "f", "g", "h", "i", "j", "k", "l", "m", "n", "o", "p", "q", "r", "s",
      "t", "u", "v", "w", "x", "y", "z", "{", "|", "}", "~">>

\* str::bytes of an ASCII string
bytes(data) ==
    [i \in 1..Len(data) |->
        31 + (CHOOSE k \in 1..Len(AsciiTable) : AsciiTable[k] = data[i])]

\* a ^ b on n-bit operands
RECURSIVE BitXor(_, _, _)
BitXor(a, b, n) ==
    IF n = 0 THEN 0
    ELSE (((a % 2) + (b % 2)) % 2) + 2 * BitXor(a \div 2, b \div 2, n - 1)

POLYNOMIAL == 4129

\* x with bit b inverted
FlipBit(x, b) ==
    IF (x \div (2 ^ b)) % 2 = 1 THEN x - (2 ^ b) ELSE x + (2 ^ b)

\* x ^ POLYNOMIAL: bits 12, 5 and 0 are the ones set in 0x1021
xor_polynomial(x) == FlipBit(FlipBit(FlipBit(x, 12), 5), 0)

\* the body of the inner loop: one shift of the u16 register
crc_shift(crc) ==
    IF (crc \div 32768) % 2 = 1
    THEN xor_polynomial((crc * 2) % 65536)
    ELSE (crc * 2) % 65536

\* n iterations of the inner loop
RECURSIVE crc_shifts(_, _)
crc_shifts(crc, n) ==
    IF n = 0 THEN crc ELSE crc_shifts(crc_shift(crc), n - 1)

\* crc ^= (byte as u16) << 8
crc_xor_byte(crc, byte) == BitXor(crc \div 256, byte, 8) * 256 + (crc % 256)

\* the body of the outer loop
crc_byte(crc, byte) == crc_shifts(crc_xor_byte(crc, byte), 8)

\* the outer loop over bytes lo..hi of bs; the range is halved, and c tested,
\* so that TLC evaluates it in shallow steps
RECURSIVE crc_fold(_, _, _, _)
crc_fold(crc, bs, lo, hi) ==
    IF lo > hi THEN crc
    ELSE IF lo = hi THEN crc_byte(crc, bs[lo])
    ELSE LET mid == (lo + hi) \div 2
             c == crc_fold(crc, bs, lo, mid)
         IN  IF c >= 0 THEN crc_fold(c, bs, mid + 1, hi) ELSE c

\* calculate_crc16 with the register starting at 0
calculate_crc16_zero_init(data) == crc_fold(0, bytes(data), 1, Len(data))

calculate_crc16(data) == crc_fold(65535, bytes(data), 1, Len(data))

\* every value the register crc holds during calculate_crc16(data)
crc_registers(data) ==
    {65535} \cup
    UNION {{crc_shifts(crc_xor_byte(crc_fold(65535, bytes(data), 1, n - 1),
                                    bytes(data)[n]), k) : k \in 0..8} :
              n \in 1..Len(data)}

MaxCrcLen == 3

CrcAlphabet == {"1", "A", "~", " "}

CheckString == <<"1", "2", "3", "4", "5", "6", "7", "8", "9">>

CrcInputs ==
    UNION {[1..n -> CrcAlphabet] : n \in 0..MaxCrcLen} \cup {CheckString}

NoCrcOut == [called |-> {}, crc |-> 0, registers |-> {}]

CallCalculateCrc16 ==
    /\ crc_out' = [called |-> {"calculate_crc16"},
                   crc |-> calculate_crc16(crc_input),
                   registers |-> crc_registers(crc_input)]
    /\ UNCHANGED <<crc_input, nonCrcVars>>

(***************************************************************************)
(* PixPayment: BR Code payload and key validation (payment_patterns.rs)     *)
(***************************************************************************)

\* rust_decimal::Decimal: mantissa m and scale s stand for m / 10^s
Dec(m, s) == [m |-> m, s |-> s]

\* format!("{}", n) of a usize
RECURSIVE usize_to_string(_)
usize_to_string(n) ==
    IF n < 10 THEN <<Chr(n)>>
    ELSE usize_to_string(n \div 10) \o <<Chr(n % 10)>>

\* format!("{:02}", n): at least two digits
fmt_02(n) == IF n < 10 THEN <<"0", Chr(n)>> ELSE usize_to_string(n)

HexChars ==
    <<"0", "1", "2", "3", "4", "5", "6", "7", "8", "9",
      "A", "B", "C", "D", "E", "F">>

\* format!("{:04X}", crc) of a u16
fmt_04X(crc) ==
    <<HexChars[((crc \div 4096) % 16) + 1], HexChars[((crc \div 256) % 16) + 1],
      HexChars[((crc \div 16) % 16) + 1], HexChars[(crc % 16) + 1]>>

\* format!("{:.2}", amount) of a non-negative Decimal of scale 0, 1 or 2
fmt_2(amount) ==
    LET cents == amount.m * (10 ^ (2 - amount.s))
    IN  usize_to_string(cents \div 100)
        \o <<".", Chr((cents \div 10) % 10), Chr(cents % 10)>>

Gui ==
    <<"0", "0", "1", "4", "B", "R", ".", "G", "O", "V", ".", "B", "C", "B",
      ".", "P", "I", "X", "0", "1">>

\* format!("0014BR.GOV.BCB.PIX01{:02}{}", self.pix_key.len(), self.pix_key)
merchant_info(self) == Gui \o fmt_02(Len(self.pix_key)) \o self.pix_key

\* self.end_to_end_id.clone().unwrap_or_else(|| uuid), uuid being the first
\* 25 characters of a new version 4 UUID without dashes
txid(self, uuid) ==
    IF self.end_to_end_id = None THEN uuid ELSE self.end_to_end_id[1]

\* format!("05{:02}{}", txid.len(), txid)
additional(self, uuid) ==
    <<"0", "5">> \o fmt_02(Len(txid(self, uuid))) \o txid(self, uuid)

\* self.merchant_name.as_bytes().len().min(25)
name_len(self) ==
    IF Len(self.merchant_name) < 25 THEN Len(self.merchant_name) ELSE 25

\* the payload before the CRC16 placeholder is pushed
payload_fields(self, uuid) ==
    <<"0", "0", "0", "2", "0", "1">>
    \o <<"0", "1", "0", "2", "1", "2">>
    \o <<"2", "6">> \o fmt_02(Len(merchant_info(self))) \o merchant_info(self)
    \o <<"5", "2", "0", "4", "0", "0", "0", "0">>
    \o <<"5", "3", "0", "3", "9", "8", "6">>
    \o <<"5", "4">> \o fmt_02(Len(fmt_2(self.amount))) \o fmt_2(self.amount)
    \o <<"5", "8", "0", "2", "B", "R">>
    \o <<"5", "9">> \o fmt_02(name_len(self))
    \o SubSeq(self.merchant_name, 1, name_len(self))
    \o <<"6", "2">> \o fmt_02(Len(additional(self, uuid)))
    \o additional(self, uuid)

\* generate_qr_payload with the checksum taken before "6304" is pushed
generate_qr_payload_crc_early(self, uuid) ==
    LET payload == payload_fields(self, uuid)
    IN  payload \o <<"6", "3", "0", "4">> \o fmt_04X(calculate_crc16(payload))

generate_qr_payload(self, uuid) ==
    LET payload == payload_fields(self, uuid) \o <<"6", "3", "0", "4">>
    IN  payload \o fmt_04X(calculate_crc16(payload))

\* sum of digits[i] * weights[i] for i < n
RECURSIVE WeightedSumBy(_, _, _)
WeightedSumBy(d, weights, n) ==
    IF n = 0 THEN 0 ELSE WeightedSumBy(d, weights, n - 1) + d[n] * weights[n]

weights1 == <<5, 4, 3, 2, 9, 8, 7, 6, 5, 4, 3, 2>>

weights2 == <<6, 5, 4, 3, 2, 9, 8, 7, 6, 5, 4, 3, 2>>

validate_cnpj(cnpj) ==
    LET digits == FilterDigits(cnpj) IN
    IF Len(digits) # 14 THEN FALSE
    ELSE IF AllSame(digits) THEN FALSE
    ELSE LET d == [i \in 1..14 |-> to_digit(digits[i])]
             digit1 == CheckDigit(WeightedSumBy(d, weights1, 12))
         IN IF d[13] # digit1 THEN FALSE
            ELSE d[14] = CheckDigit(WeightedSumBy(d, weights2, 13))

PixKeyType == {"Cpf", "Cnpj", "Email", "Phone", "Random"}

\* Result of validate_pix_key: "Ok" or "Err" (always InvalidPixKey)
validate_pix_key(self) ==
    CASE self.pix_key_type = "Cpf" ->
            IF ~PixPayment_validate_cpf(self.pix_key) THEN "Err" ELSE "Ok"
      [] self.pix_key_type = "Cnpj" ->
            IF ~validate_cnpj(self.pix_key) THEN "Err" ELSE "Ok"
      [] self.pix_key_type = "Email" ->
            IF (\A i \in 1..Len(self.pix_key) : self.pix_key[i] # "@")
               \/ Len(self.pix_key) > 77
            THEN "Err" ELSE "Ok"
      [] self.pix_key_type = "Phone" ->
            IF Len(FilterDigits(self.pix_key)) # 11 THEN "Err" ELSE "Ok"
      [] self.pix_key_type = "Random" ->
            IF Len(self.pix_key) # 32 THEN "Err" ELSE "Ok"

\* longest local part of the e-mail keys tried
MaxEmailLocal == 76

\* most blanks after the digits of the phone keys tried
MaxPhonePad == 67

Key(k, t) == [key |-> k, type |-> t]

PixKeys ==
    {Key(<<"1", "1", "1", "4", "4", "4", "7", "7", "7", "3", "5">>, "Cpf"),
     Key(<<"1", "1", "1", "1", "1", "1", "1", "1", "1", "1", "1">>, "Cpf"),
     Key(<<"1", "1", "2", "2", "2", "3", "3", "3", "0", "0", "0", "1", "8", "1">>, "Cnpj"),
     Key(<<"1", "1", "2", "2", "2", "3", "3", "3", "0", "0", "0", "1", "8", "0">>, "Cnpj"),
     Key(<<"a", "@", "b", ".", "c", "o">>, "Email"),
     Key(<<"a", "b", ".", "c", "o">>, "Email"),
     Key(Repeat("a", MaxEmailLocal - 1) \o <<"@", "b">>, "Email"),
     Key(Repeat("a", MaxEmailLocal) \o <<"@", "b">>, "Email"),
     Key(<<"1", "1", "9", "8", "7", "6", "5", "4", "3", "2", "1">>, "Phone"),
     Key(<<"1", "2", "3">>, "Phone"),
     Key(<<"1", "1", "9", "8", "7", "6", "5", "4", "3", "2", "1">> \o Repeat(" ", MaxPhonePad), "Phone"),
     Key(Repeat("k", 32), "Random"),
     Key(Repeat("k", 5), "Random")}

\* merchant_name and amount of the merchants tried
Merchants ==
    {[merchant_name |-> <<"L", "O", "J", "A">>, amount |-> Dec(10, 0)],
     [merchant_name |->
        <<"P", "A", "D", "A", "R", "I", "A", " ", "E", " ", "C", "O", "N", "F",
          "E", "I", "T", "A", "R", "I", "A", " ", "L", "U", "Z">>,
      amount |-> Dec(995, 1)],
     [merchant_name |->
        <<"M", "E", "R", "C", "A", "D", "O", " ", "C", "E", "N", "T", "R", "A",
          "L", " ", "D", "E", " ", "S", "A", "O", " ", "P", "A", "U", "L", "O",
          " ", "S", ".", "A", ".">>,
      amount |-> Dec(123456, 2)]}

PixEndToEndIds == {None, Some(<<"E", "2", "E", "1", "2", "3">>)}

\* first 25 characters of two version 4 UUIDs without dashes
Uuids ==
    {Repeat("a", 12) \o <<"4">> \o Repeat("a", 12),
     Repeat("b", 12) \o <<"4">> \o Repeat("b", 12)}

PixPayments ==
    {[pix_key |-> k.key, pix_key_type |-> k.type, amount |-> m.amount,
      merchant_name |-> m.merchant_name, end_to_end_id |-> e] :
        k \in PixKeys, m \in Merchants, e \in PixEndToEndIds}

NoPixOut == [called |-> {}, payloads |-> <<>>, result |-> NoStatus]

\* Each run makes one call (or one pair of calls) on the struct it starts with.

CallGenerateQrPayload ==
    /\ pix_out = NoPixOut
    /\ \E uuid \in Uuids :
           pix_out' = [called |-> {"generate_qr_payload"},
                       payloads |-> <<generate_qr_payload(pix, uuid)>>,
                       result |-> NoStatus]
    /\ UNCHANGED <<pix, nonPixVars>>

\* two calls on the same struct, each drawing its own UUID
CallGenerateQrPayloadTwice ==
    /\ pix_out = NoPixOut
    /\ \E u1 \in Uuids, u2 \in Uuids :
           pix_out' = [called |-> {"generate_qr_payload", "twice"},
                       payloads |-> <<generate_qr_payload(pix, u1),
                                      generate_qr_payload(pix, u2)>>,
                       result |-> NoStatus]
    /\ UNCHANGED <<pix, nonPixVars>>

CallValidatePixKey ==
    /\ pix_out = NoPixOut
    /\ pix_out' = [called |-> {"validate_pix_key"}, payloads |-> <<>>,
                   result |-> validate_pix_key(pix)]
    /\ UNCHANGED <<pix, nonPixVars>>

(***************************************************************************)
(* rust_decimal::Decimal arithmetic.  Comparison of Decimals is by value,   *)
(* so results are kept with the smallest scale that holds the value.        *)
(***************************************************************************)

RECURSIVE Norm(_)
Norm(a) ==
    IF a.s > 0 /\ a.m % 10 = 0 THEN Norm(Dec(a.m \div 10, a.s - 1)) ELSE a

\* the mantissa of a at scale s >= a.s
AtScale(a, s) == a.m * (10 ^ (s - a.s))

MaxScale(a, b) == IF a.s > b.s THEN a.s ELSE b.s

\* a + b
DecAdd(a, b) ==
    Norm(Dec(AtScale(a, MaxScale(a, b)) + AtScale(b, MaxScale(a, b)), MaxScale(a, b)))

\* a - b
DecSub(a, b) ==
    Norm(Dec(AtScale(a, MaxScale(a, b)) - AtScale(b, MaxScale(a, b)), MaxScale(a, b)))

\* a * b
DecMul(a, b) == Norm(Dec(a.m * b.m, a.s + b.s))

\* a / Decimal::new(100, 0)
DecDiv100(a) == Norm(Dec(a.m, a.s + 2))

(***************************************************************************)
(* BrazilianTaxEntity (brazilian_patterns.rs)                               *)
(***************************************************************************)

StateCodes ==
    {"SP", "RJ", "MG", "RS", "PR", "SC", "BA", "PE", "CE", "DF", "GO", "MT",
     "MS", "ES", "PA", "AM", "MA", "PI", "RN", "PB", "AL", "SE", "TO", "RO",
     "RR", "AC", "AP"}

\* str::to_uppercase on the texts passed as state or city
to_uppercase(s) == IF s = "sp" THEN "SP" ELSE s

\* let tax_rate = match state.to_uppercase().as_str() { ... }
icms_tax_rate(state) ==
    LET st == to_uppercase(state) IN
    IF st \in {"RJ", "AM"} THEN Dec(20, 2)
    ELSE IF st \in {"PR", "BA", "CE", "PA", "MA", "PI", "AL", "SE"} THEN Dec(19, 2)
    ELSE IF st \in {"SP", "MG", "PE", "DF", "RN", "PB", "TO", "AP"} THEN Dec(18, 2)
    ELSE IF st \in {"RS", "SC", "GO", "MT", "MS", "ES", "RO", "RR", "AC"} THEN Dec(17, 2)
    ELSE Dec(17, 2)

calculate_icms(subtotal, state) ==
    DecDiv100(DecMul(subtotal, icms_tax_rate(state)))

calculate_pis(subtotal) == DecDiv100(DecMul(subtotal, Dec(165, 4)))

calculate_cofins(subtotal) == DecDiv100(DecMul(subtotal, Dec(760, 4)))

\* let iss_rate = match city.to_uppercase().as_str() { ... }
iss_rate(city) ==
    LET c == to_uppercase(city) IN
    IF c \in {"SAO PAULO", "SP"} THEN Dec(5, 2)
    ELSE IF c \in {"RIO DE JANEIRO", "RJ"} THEN Dec(5, 2)
    ELSE IF c \in {"BELO HORIZONTE", "BH"} THEN Dec(3, 2)
    ELSE IF c = "CURITIBA" THEN Dec(2, 2)
    ELSE Dec(3, 2)

calculate_iss(subtotal, city) == DecDiv100(DecMul(subtotal, iss_rate(city)))

calculate_total_tax(subtotal, state, is_service) ==
    IF is_service
    THEN DecAdd(DecAdd(calculate_iss(subtotal, state), calculate_pis(subtotal)),
                calculate_cofins(subtotal))
    ELSE DecAdd(DecAdd(calculate_icms(subtotal, state), calculate_pis(subtotal)),
                calculate_cofins(subtotal))

Subtotals == {Dec(100000, 2), Dec(9990, 2), Dec(250, 0), Dec(1, 2)}

TaxStates == StateCodes \cup {"sp", "XX"}

TaxInputs ==
    [subtotal : Subtotals, state : TaxStates, is_service : BOOLEAN]

NoTaxOut == [called |-> {}, value |-> Dec(0, 0)]

CallCalculateIcms ==
    /\ tax_out' = [called |-> {"calculate_icms"},
                   value |-> calculate_icms(tax_in.subtotal, tax_in.state)]
    /\ UNCHANGED <<tax_in, nonTaxVars>>

CallCalculatePis ==
    /\ tax_out' = [called |-> {"calculate_pis"},
                   value |-> calculate_pis(tax_in.subtotal)]
    /\ UNCHANGED <<tax_in, nonTaxVars>>

CallCalculateCofins ==
    /\ tax_out' = [called |-> {"calculate_cofins"},
                   value |-> calculate_cofins(tax_in.subtotal)]
    /\ UNCHANGED <<tax_in, nonTaxVars>>

CallCalculateTotalTax ==
    /\ tax_out' = [called |-> {"calculate_total_tax"},
                   value |-> calculate_total_tax(tax_in.subtotal, tax_in.state,
                                                 tax_in.is_service)]
    /\ UNCHANGED <<tax_in, nonTaxVars>>

(***************************************************************************)
(* BrazilianPaymentEntity: tax breakdown (brazilian_payment_entity.rs)      *)
(***************************************************************************)

\* BrazilianConfig defaults, each read through Decimal::from_f64
tax_rate_icms == Dec(18, 2)

tax_rate_pis == Dec(165, 4)

tax_rate_cofins == Dec(76, 3)

NoBreakdown ==
    [gross_amount |-> Dec(0, 0), icms_amount |-> Dec(0, 0), icms_rate |-> Dec(0, 0),
     pis_amount |-> Dec(0, 0), pis_rate |-> Dec(0, 0), cofins_amount |-> Dec(0, 0),
     cofins_rate |-> Dec(0, 0), total_taxes |-> Dec(0, 0), net_amount |-> Dec(0, 0)]

\* Result<BrazilianTaxBreakdown, BrazilianPaymentError>
OkBreakdown(b) == [ok |-> TRUE, breakdown |-> b]

ErrInvalidAmount == [ok |-> FALSE, breakdown |-> NoBreakdown]

\* self is the Option<Decimal> that get_amount() returns
calculate_brazilian_taxes(self) ==
    IF self # None
    THEN LET gross_amount == self[1]
             icms == DecMul(gross_amount, tax_rate_icms)
             pis == DecMul(gross_amount, tax_rate_pis)
             cofins == DecMul(gross_amount, tax_rate_cofins)
             total_taxes == DecAdd(DecAdd(icms, pis), cofins)
             net_amount == DecSub(gross_amount, total_taxes)
         IN  OkBreakdown([gross_amount |-> gross_amount,
                          icms_amount |-> icms, icms_rate |-> tax_rate_icms,
                          pis_amount |-> pis, pis_rate |-> tax_rate_pis,
                          cofins_amount |-> cofins, cofins_rate |-> tax_rate_cofins,
                          total_taxes |-> total_taxes, net_amount |-> net_amount])
    ELSE ErrInvalidAmount

TaxType == {"Icms", "Pis", "Cofins"}

\* the body of the loop over the exemptions, from the i-th on
RECURSIVE apply_each(_, _, _)
apply_each(base_taxes, exemptions, i) ==
    IF i > Len(exemptions) THEN base_taxes
    ELSE LET exemption == exemptions[i]
             keep == DecSub(Dec(1, 0), exemption.exemption_rate)
             next ==
                 CASE exemption.tax_type = "Icms" ->
                        [base_taxes EXCEPT !.icms_amount = DecMul(@, keep)]
                   [] exemption.tax_type = "Pis" ->
                        [base_taxes EXCEPT !.pis_amount = DecMul(@, keep)]
                   [] exemption.tax_type = "Cofins" ->
                        [base_taxes EXCEPT !.cofins_amount = DecMul(@, keep)]
         IN  apply_each(next, exemptions, i + 1)

\* apply_tax_exemptions returning the amounts without the two final assignments
apply_tax_exemptions_stale_totals(self, exemptions) ==
    IF ~calculate_brazilian_taxes(self).ok THEN ErrInvalidAmount
    ELSE OkBreakdown(apply_each(calculate_brazilian_taxes(self).breakdown, exemptions, 1))

apply_tax_exemptions(self, exemptions) ==
    IF ~calculate_brazilian_taxes(self).ok THEN ErrInvalidAmount
    ELSE LET base_taxes ==
                 apply_each(calculate_brazilian_taxes(self).breakdown, exemptions, 1)
             total_taxes ==
                 DecAdd(DecAdd(base_taxes.icms_amount, base_taxes.pis_amount),
                        base_taxes.cofins_amount)
         IN  OkBreakdown([base_taxes EXCEPT
                              !.total_taxes = total_taxes,
                              !.net_amount = DecSub(base_taxes.gross_amount, total_taxes)])

MaxExemptions == 2

ExemptionRates == {Dec(5, 1), Dec(1, 0)}

TaxExemptions == [tax_type : TaxType, exemption_rate : ExemptionRates]

GrossAmounts == {None, Some(Dec(100000, 2)), Some(Dec(9990, 2))}

BtxInputs ==
    [amount : GrossAmounts,
     exemptions : UNION {[1..n -> TaxExemptions] : n \in 0..MaxExemptions}]

NoBtxOut == [called |-> {}, result |-> ErrInvalidAmount]

CallCalculateBrazilianTaxes ==
    /\ btx_out' = [called |-> {"calculate_brazilian_taxes"},
                   result |-> calculate_brazilian_taxes(btx_in.amount)]
    /\ UNCHANGED <<btx_in, nonBtxVars>>

CallApplyTaxExemptions ==
    /\ btx_out' = [called |-> {"apply_tax_exemptions"},
                   result |-> apply_tax_exemptions(btx_in.amount, btx_in.exemptions)]
    /\ UNCHANGED <<btx_in, nonBtxVars>>

(***************************************************************************)
(* ShippingEntity: zone multiplier (brazilian_patterns.rs)                  *)
(***************************************************************************)

southeast == {"SP", "RJ", "MG", "ES"}

south == {"PR", "SC", "RS"}

northeast == {"BA", "SE", "AL", "PE", "PB", "RN", "CE", "PI", "MA"}

north == {"AC", "AP", "AM", "PA", "RO", "RR", "TO"}

center == {"GO", "MT", "MS", "DF"}

calculate_zone_multiplier(origin, dest) ==
    LET origin_upper == to_uppercase(origin)
        dest_upper == to_uppercase(dest)
    IN
    IF origin_upper = dest_upper THEN Dec(100, 2)
    ELSE IF \/ (origin_upper \in southeast /\ dest_upper \in southeast)
            \/ (origin_upper \in south /\ dest_upper \in south)
            \/ (origin_upper \in northeast /\ dest_upper \in northeast)
            \/ (origin_upper \in north /\ dest_upper \in north)
            \/ (origin_upper \in center /\ dest_upper \in center)
    THEN Dec(120, 2)
    ELSE IF \/ (origin_upper \in southeast
                    /\ (dest_upper \in south \/ dest_upper \in center))
            \/ (origin_upper \in south /\ dest_upper \in southeast)
    THEN Dec(150, 2)
    ELSE IF \/ (origin_upper \in southeast /\ dest_upper \in north)
            \/ (origin_upper \in north /\ dest_upper \in southeast)
            \/ (origin_upper \in south /\ dest_upper \in north)
            \/ (origin_upper \in north /\ dest_upper \in south)
    THEN Dec(180, 2)
    ELSE Dec(160, 2)

ZoneInputs == [origin : StateCodes, dest : StateCodes]

NoZoneOut == [called |-> {}, value |-> Dec(0, 0)]

CallCalculateZoneMultiplier ==
    /\ zone_out' = [called |-> {"calculate_zone_multiplier"},
                    value |-> calculate_zone_multiplier(zone_in.origin, zone_in.dest)]
    /\ UNCHANGED <<zone_in, nonZoneVars>>

\* the same route asked for again
CallCalculateZoneMultiplierAgain ==
    /\ zone_out.called # {}
    /\ zone_out' = [called |-> {"calculate_zone_multiplier", "again"},
                    value |-> calculate_zone_multiplier(zone_in.origin, zone_in.dest)]
    /\ UNCHANGED <<zone_in, nonZoneVars>>

(***************************************************************************)
(* SubscriptionEntity: calculate_proration (subscription_patterns.rs).      *)
(* Instants are counted in ticks of 1/TicksPerSecond second; prices are     *)
(* Decimals of scale 2, written in cents.  A returned amount is the         *)
(* fraction num/den of a cent; rounded tells that the amount is the         *)
(* Decimal next to that fraction and differs from it.                       *)
(***************************************************************************)

TicksPerSecond == 2

\* chrono::Duration::num_seconds of a non-negative duration: whole seconds
num_seconds(ticks) == ticks \div TicksPerSecond

RECURSIVE Gcd(_, _)
Gcd(a, b) == IF b = 0 THEN a ELSE Gcd(b, a % b)

Abs(n) == IF n < 0 THEN -n ELSE n

\* the fraction n/d in lowest terms, d > 0
Fraction(n, d) ==
    LET g == Gcd(Abs(n), d) IN [num |-> n \div g, den |-> d \div g]

IsPowerOfTwo(n) == \E k \in 0..30 : n = 2 ^ k

\* remaining_period / total_period on f64: the operands are whole numbers
\* far below 2^53; the quotient is the fraction itself when its denominator
\* in lowest terms is a power of two, the nearest f64 otherwise, and
\* infinite or NaN when total_period is 0
f64_div(remaining_period, total_period) ==
    IF total_period = 0
    THEN [finite |-> FALSE, num |-> 0, den |-> 1, rounded |-> FALSE]
    ELSE LET q == Fraction(remaining_period, total_period)
         IN  [finite |-> TRUE, num |-> q.num, den |-> q.den,
              rounded |-> ~IsPowerOfTwo(q.den)]

\* Decimal::from_f64_retain(ratio).unwrap_or(Decimal::ZERO): None for an
\* infinite or NaN ratio, else the digits of the f64
from_f64_retain_or_zero(ratio) ==
    IF ~ratio.finite THEN [num |-> 0, den |-> 1, rounded |-> FALSE]
    ELSE [num |-> ratio.num, den |-> ratio.den, rounded |-> ratio.rounded]

\* price_diff * factor, price_diff in cents
mul_ratio(price_diff, factor) ==
    LET q == Fraction(price_diff * factor.num, factor.den)
    IN  [num |-> q.num, den |-> q.den,
         rounded |-> factor.rounded /\ price_diff # 0]

\* self holds price, current_period_start and current_period_end; t is the
\* reading of Utc::now()
calculate_proration(self, t, new_price) ==
    IF t >= self.current_period_end
    THEN [num |-> new_price, den |-> 1, rounded |-> FALSE]
    ELSE LET total_period ==
                 num_seconds(self.current_period_end - self.current_period_start)
             remaining_period == num_seconds(self.current_period_end - t)
             proration_ratio == f64_div(remaining_period, total_period)
             price_diff == new_price - self.price
         IN  mul_ratio(price_diff, from_f64_retain_or_zero(proration_ratio))

\* the longest period tried, in seconds
LongPeriod == 3600

PeriodEnds == {0, 2, 8, 12, LongPeriod * TicksPerSecond}

Instants ==
    {0, 1, 3, 4, 8, 9, 12, 13, (LongPeriod \div 3) * TicksPerSecond,
     (LongPeriod \div 2) * TicksPerSecond, LongPeriod * TicksPerSecond}

Prices == {1000, 2990}

NewPrices == {500, 2990, 5990}

ProInputs ==
    [price : Prices, current_period_start : {0}, current_period_end : PeriodEnds,
     now : Instants, new_price : NewPrices]

NoProOut == [called |-> {}, value |-> [num |-> 0, den |-> 1, rounded |-> FALSE]]

CallCalculateProration ==
    /\ pro_out' = [called |-> {"calculate_proration"},
                   value |-> calculate_proration(pro_in, pro_in.now, pro_in.new_price)]
    /\ UNCHANGED <<pro_in, nonProVars>>

(***************************************************************************)
(* BrazilianPaymentEntity: BRL text (brazilian_payment_entity.rs)           *)
(***************************************************************************)

\* the n decimal digits of k, zeros in front
RECURSIVE Digits(_, _)
Digits(k, n) ==
    IF n = 0 THEN <<>> ELSE Digits(k \div 10, n - 1) \o <<Chr(k % 10)>>

\* Decimal::to_string of a non-negative amount: the integer part, and the
\* point with s fraction digits when the scale s is not 0
decimal_to_string(amount) ==
    IF amount.s = 0 THEN usize_to_string(amount.m)
    ELSE usize_to_string(amount.m \div (10 ^ amount.s))
         \o <<".">> \o Digits(amount.m % (10 ^ amount.s), amount.s)

\* position of the first c in str, 0 when there is none
Find(str, c) ==
    IF \E i \in 1..Len(str) : str[i] = c
    THEN CHOOSE i \in 1..Len(str) : str[i] = c /\ \A j \in 1..(i - 1) : str[j] # c
    ELSE 0

\* parts[0] of amount_str.split('.')
integer_part(amount_str) ==
    IF Find(amount_str, ".") = 0 THEN amount_str
    ELSE SubSeq(amount_str, 1, Find(amount_str, ".") - 1)

\* parts.get(1).unwrap_or(&"00"), for a text with at most one point
decimal_part(amount_str) ==
    IF Find(amount_str, ".") = 0 THEN <<"0", "0">>
    ELSE SubSeq(amount_str, Find(amount_str, ".") + 1, Len(amount_str))

Reverse(str) == [i \in 1..Len(str) |-> str[Len(str) + 1 - i]]

\* the loop over integer_part.chars().rev().enumerate(), from index i on
\* (rev is the reversed text, i counts from 0)
RECURSIVE push_groups(_, _)
push_groups(rev, i) ==
    IF i >= Len(rev) THEN <<>>
    ELSE (IF i > 0 /\ i % 3 = 0 THEN <<".">> ELSE <<>>)
         \o <<rev[i + 1]>> \o push_groups(rev, i + 1)

formatted_integer(amount_str) ==
    Reverse(push_groups(Reverse(integer_part(amount_str)), 0))

\* format!("{:0<2}", text): zeros behind up to two characters
pad_right_2(text) ==
    IF Len(text) >= 2 THEN text ELSE text \o Repeat("0", 2 - Len(text))

\* &decimal_part[..2.min(decimal_part.len())]
first_two(text) == SubSeq(text, 1, IF Len(text) < 2 THEN Len(text) ELSE 2)

\* format_brl_amount without the padding of the fraction
format_brl_amount_no_pad(amount) ==
    LET amount_str == decimal_to_string(amount)
    IN  <<"R", "$", " ">> \o formatted_integer(amount_str) \o <<",">>
        \o first_two(decimal_part(amount_str))

format_brl_amount(amount) ==
    LET amount_str == decimal_to_string(amount)
    IN  <<"R", "$", " ">> \o formatted_integer(amount_str) \o <<",">>
        \o pad_right_2(first_two(decimal_part(amount_str)))

\* str.replace("R$", "") from position i on
RECURSIVE remove_currency(_, _)
remove_currency(str, i) ==
    IF i > Len(str) THEN <<>>
    ELSE IF i < Len(str) /\ str[i] = "R" /\ str[i + 1] = "$"
    THEN remove_currency(str, i + 2)
    ELSE <<str[i]>> \o remove_currency(str, i + 1)

\* .replace(" ", "").replace(".", "")
NotBlankOrPoint(c) == c # " " /\ c # "."

\* .replace(",", ".")
comma_to_point(str) == [i \in 1..Len(str) |-> IF str[i] = "," THEN "." ELSE str[i]]

cleaned(formatted) ==
    comma_to_point(SelectSeq(remove_currency(formatted, 1), NotBlankOrPoint))

\* the number written by a text of digits
RECURSIVE digits_value(_)
digits_value(str) ==
    IF str = <<>> THEN 0
    ELSE 10 * digits_value(SubSeq(str, 1, Len(str) - 1)) + to_digit(str[Len(str)])

\* Result<Decimal, _> of str::parse::<Decimal> on an unsigned text: digits
\* with at most one point and at least one digit
parse_decimal(str) ==
    LET point == Find(str, ".")
        digits == SelectSeq(str, is_ascii_digit)
    IN  IF /\ Len(digits) > 0
           /\ \A i \in 1..Len(str) : is_ascii_digit(str[i]) \/ i = point
        THEN [ok |-> TRUE,
              value |-> Dec(digits_value(digits),
                            IF point = 0 THEN 0 ELSE Len(str) - point)]
        ELSE [ok |-> FALSE, value |-> Dec(0, 0)]

\* Err means BrazilianPaymentError::InvalidAmount
parse_brl_amount(formatted) == parse_decimal(cleaned(formatted))

IntegerParts == {0, 7, 99, 100, 999, 1000, 1234, 12345, 999999, 1000000, 1234567}

\* non-negative amounts with zero, one and two fraction digits
BrlAmounts ==
    {Dec(n, 0) : n \in IntegerParts}
    \cup {Dec(n * 10 + f, 1) : n \in IntegerParts, f \in {0, 5}}
    \cup {Dec(n * 100 + f, 2) : n \in IntegerParts, f \in {0, 5, 50, 56}}

BrlTexts ==
    {<<"R", "$", " ", "1", "0", "0", ",", "0", "0">>,
     <<"R", "$", " ", "1", ".", "2", "3", "4", ",", "5", "6">>,
     <<"1", "0", "0", ",", "5", "0">>,
     <<"i", "n", "v", "a", "l", "i", "d">>,
     <<"R", "$", " ", "1", ",", "2", ",", "3">>,
     <<"1", "2", "a", ",", "0", "0">>,
     <<"R", "$", " ">>,
     <<"1", ".", "2", ".", "3">>,
     <<>>}

NoBrlOut == [called |-> {}, text |-> <<>>, parsed |-> [ok |-> FALSE, value |-> Dec(0, 0)]]

CallFormatBrlAmount ==
    /\ brl_out = NoBrlOut
    /\ brl_out' = [called |-> {"format_brl_amount"},
                   text |-> format_brl_amount(brl_in.amount),
                   parsed |-> NoBrlOut.parsed]
    /\ UNCHANGED <<brl_in, nonBrlVars>>

CallParseBrlAmount ==
    /\ brl_out = NoBrlOut
    /\ brl_out' = [called |-> {"parse_brl_amount"}, text |-> <<>>,
                   parsed |-> parse_brl_amount(brl_in.text)]
    /\ UNCHANGED <<brl_in, nonBrlVars>>

\* parse_brl_amount applied to the text format_brl_amount returned
CallParseFormatted ==
    /\ brl_out.called = {"format_brl_amount"}
    /\ brl_out' = [called |-> {"format_brl_amount", "parse_brl_amount"},
                   text |-> brl_out.text,
                   parsed |-> parse_brl_amount(brl_out.text)]
    /\ UNCHANGED <<brl_in, nonBrlVars>>

(***************************************************************************)
(* TransactionalRepository (transactional_repository.rs).  A uuid::Uuid is  *)
(* its two 64-bit halves; amounts are whole numbers of cents.                *)
(***************************************************************************)

\* uuid::Uuid values: hi and lo stand for the upper and lower 64 bits
Uuids128 == [hi : {0, 1}, lo : {1, 2}]

\* Ord of uuid::Uuid: the bytes, most significant first
UuidLess(a, b) == a.hi < b.hi \/ (a.hi = b.hi /\ a.lo < b.lo)

\* entity_ids.sort()
sort(entity_ids) == SortSeq(entity_ids, UuidLess)

\* the validator argument: the balance covers the amount
validator(entity, amount) == entity.balance >= amount

\* the updater argument: reads the row of id, adds delta when apply is set
\* and returns the row
updater(accounts, id, delta, apply) ==
    IF apply THEN [accounts EXCEPT ![id] = @ + delta] ELSE accounts

Entity(accounts, id) == [id |-> id, balance |-> accounts[id]]

UpdaterCall(id, delta, apply) == [fn |-> "updater", id |-> id, delta |-> delta, apply |-> apply]

ValidatorCall(id, amount) == [fn |-> "validator", id |-> id, delta |-> amount, apply |-> FALSE]

\* the closure atomic_transfer hands to with_ordered_locks, run on the sorted
\* ids: [ok, accounts, log]
transfer_operation(accounts, sorted_ids, amount) ==
    LET from_id == sorted_ids[1]
        to_id == sorted_ids[2]
        from_entity == Entity(updater(accounts, from_id, 0, FALSE), from_id)
        read_log == <<UpdaterCall(from_id, 0, FALSE), ValidatorCall(from_id, amount)>>
    IN  IF ~validator(from_entity, amount)
        THEN [ok |-> FALSE, accounts |-> accounts, log |-> read_log]
        ELSE [ok |-> TRUE,
              accounts |-> updater(updater(accounts, from_id, -amount, TRUE),
                                   to_id, amount, TRUE),
              log |-> read_log \o <<UpdaterCall(to_id, 0, FALSE),
                                    UpdaterCall(from_id, -amount, TRUE),
                                    UpdaterCall(to_id, amount, TRUE)>>]

\* atomic_transfer run alone: the two early returns, then with_ordered_locks
\* (sort, begin, locks, closure) and the commit or rollback of
\* with_transaction
atomic_transfer(accounts, from_id, to_id, amount) ==
    IF amount <= 0 \/ from_id = to_id
    THEN [result |-> "ValidationFailed", tx |-> "none", accounts |-> accounts,
          log |-> <<>>, locked |-> <<>>]
    ELSE LET sorted_ids == sort(<<from_id, to_id>>)
             r == transfer_operation(accounts, sorted_ids, amount)
         IN  IF r.ok
             THEN [result |-> "Ok", tx |-> "committed", accounts |-> r.accounts,
                   log |-> r.log, locked |-> sorted_ids]
             ELSE [result |-> "Err", tx |-> "rolled_back", accounts |-> accounts,
                   log |-> r.log, locked |-> sorted_ids]

TransferAmounts == {-5, 0, 30, 100}

OpeningBalances == {50}

XferInputs ==
    [from_id : Uuids128, to_id : Uuids128, amount : TransferAmounts,
     accounts : [Uuids128 -> OpeningBalances]]

NoXferOut ==
    [called |-> {}, result |-> "-", tx |-> "none", accounts |-> <<>>,
     log |-> <<>>, locked |-> <<>>]

CallAtomicTransfer ==
    /\ xfer_out.called = {}
    /\ LET r == atomic_transfer(xfer_in.accounts, xfer_in.from_id, xfer_in.to_id,
                                xfer_in.amount)
       IN  xfer_out' = [called |-> {"atomic_transfer"}, result |-> r.result,
                        tx |-> r.tx, accounts |-> r.accounts, log |-> r.log,
                        locked |-> r.locked]
    /\ UNCHANGED <<xfer_in, nonXferVars>>

\* the caller reads the rows again after the call
ReadAccounts ==
    /\ xfer_out.called = {"atomic_transfer"}
    /\ xfer_out' = [xfer_out EXCEPT !.called = @ \cup {"read"}]
    /\ UNCHANGED <<xfer_in, nonXferVars>>

\* id.as_u128() as i64: the lower 64 bits
as_i64(id) == id.lo

\* the concurrent calls of with_ordered_locks (atomic_transfer is the call
\* with entity_ids = vec![from_id, to_id])
Calls == {"c1", "c2"}

LockRequests == [1..2 -> Uuids128]

NotStarted == [at |-> "start", next |-> 0]

\* the key the call asks for next
next_key(c) == as_i64(lk_ids[c][lk_pc[c].next])

\* pg_advisory_xact_lock(key) has to wait: another transaction holds key
must_wait(c) ==
    /\ lk_pc[c].at = "locking" /\ lk_pc[c].next <= Len(lk_ids[c])
    /\ \E other \in Calls \ {c} :
          \E i \in 1..Len(lk_held[other]) : lk_held[other][i] = next_key(c)

\* entity_ids.sort() and the begin of with_transaction
BeginOrdered(c) ==
    /\ lk_pc[c].at = "start"
    /\ lk_ids' = [lk_ids EXCEPT ![c] = sort(@)]
    /\ lk_pc' = [lk_pc EXCEPT ![c] = [at |-> "locking", next |-> 1]]
    /\ UNCHANGED <<lk_held, nonLockVars>>

\* one turn of `for id in &entity_ids`: the lock is granted when no other
\* transaction holds the key (a transaction may take its own key again)
AcquireLock(c) ==
    /\ lk_pc[c].at = "locking" /\ lk_pc[c].next <= Len(lk_ids[c])
    /\ ~must_wait(c)
    /\ lk_held' = [lk_held EXCEPT ![c] = Append(@, next_key(c))]
    /\ lk_pc' = [lk_pc EXCEPT ![c].next = @ + 1]
    /\ UNCHANGED <<lk_ids, nonLockVars>>

\* operation(tx, entity_ids) with every lock held, then the commit or
\* rollback of with_transaction, which releases the transaction's locks
RunOperation(c) ==
    /\ lk_pc[c].at = "locking" /\ lk_pc[c].next > Len(lk_ids[c])
    /\ lk_pc' = [lk_pc EXCEPT ![c].at = "done"]
    /\ lk_held' = [lk_held EXCEPT ![c] = <<>>]
    /\ UNCHANGED <<lk_ids, nonLockVars>>

\* the wait ends with an error of the database (lock_timeout, or a deadlock
\* it detected): map_err gives TransactionFailed and the transaction is
\* dropped with its locks
LockWaitFails(c) ==
    /\ must_wait(c)
    /\ lk_pc' = [lk_pc EXCEPT ![c].at = "failed"]
    /\ lk_held' = [lk_held EXCEPT ![c] = <<>>]
    /\ UNCHANGED <<lk_ids, nonLockVars>>

\* str::contains
contains(msg, pat) ==
    \E i \in 1..(Len(msg) - Len(pat) + 1) : SubSeq(msg, i, i + Len(pat) - 1) = pat

TransactionFailed(msg) == [kind |-> "TransactionFailed", msg |-> msg]

ValidationFailed(msg) == [kind |-> "ValidationFailed", msg |-> msg]

\* let is_retryable = match &e { .. }
is_retryable(e) ==
    IF e.kind = "TransactionFailed"
    THEN \/ contains(e.msg, <<"d", "e", "a", "d", "l", "o", "c", "k">>)
         \/ contains(e.msg, <<"s", "e", "r", "i", "a", "l", "i", "z", "a", "t", "i", "o", "n">>)
         \/ contains(e.msg, <<"c", "o", "u", "l", "d", " ", "n", "o", "t", " ", "s", "e", "r", "i", "a", "l", "i", "z", "e">>)
    ELSE FALSE

\* bits of the u64 in which the delay is computed
U64_BITS == 64

\* 2_u64.pow(attempt - 1) does not fit in a u64
pow_overflows(attempt) == attempt - 1 >= U64_BITS

\* what one invocation of the operation can return
Outcomes ==
    {[ok |-> TRUE, e |-> TransactionFailed(<<>>)]}
    \cup {[ok |-> FALSE, e |-> e] :
            e \in {TransactionFailed(<<"d", "e", "a", "d", "l", "o", "c", "k", " ", "d", "e", "t", "e", "c", "t", "e", "d">>),
                   TransactionFailed(<<"c", "o", "u", "l", "d", " ", "n", "o", "t", " ", "s", "e", "r", "i", "a", "l", "i", "z", "e", " ", "a", "c", "c", "e", "s", "s">>),
                   TransactionFailed(<<"s", "e", "r", "i", "a", "l", "i", "z", "a", "t", "i", "o", "n", " ", "f", "a", "i", "l", "u", "r", "e">>),
                   TransactionFailed(<<"c", "o", "n", "n", "e", "c", "t", "i", "o", "n", " ", "r", "e", "s", "e", "t">>),
                   ValidationFailed(<<"d", "e", "a", "d", "l", "o", "c", "k">>)}}

\* max_retries: u32
MaxRetries == {0, 1, 3, 70}

\* base_delay_ms: u64 (with these the product and the jitter fit whenever the
\* power does)
BaseDelays == {0, 1}

\* arguments, and whether the build checks arithmetic overflow
RetryInputs ==
    [max_retries : MaxRetries, base_delay_ms : BaseDelays, overflow_checks : BOOLEAN]

NoRetry ==
    [pc |-> "idle", attempt |-> 0, calls |-> 0, last |-> [ok |-> TRUE, e |-> TransactionFailed(<<>>)],
     result |-> "-", delay_exp |-> 0]

\* retry_transaction is called: let mut attempt = 0; loop {
CallRetryTransaction ==
    /\ rt.pc = "idle"
    /\ rt' = [rt EXCEPT !.pc = "call"]
    /\ UNCHANGED <<rt_in, nonRetryVars>>

\* match operation().await { .. } up to the return or the sleep
InvokeOperation(outcome) ==
    /\ rt.pc = "call"
    /\ LET attempt == rt.attempt + 1
           invoked == [rt EXCEPT !.calls = @ + 1, !.last = outcome]
       IN  rt' =
             IF outcome.ok
             THEN [invoked EXCEPT !.pc = "returned", !.result = "Ok"]
             ELSE IF ~is_retryable(outcome.e) \/ attempt >= rt_in.max_retries
             THEN [invoked EXCEPT !.pc = "returned", !.result = "Err", !.attempt = attempt]
             ELSE IF pow_overflows(attempt) /\ rt_in.overflow_checks
             THEN [invoked EXCEPT !.pc = "panicked", !.attempt = attempt]
             ELSE [invoked EXCEPT !.pc = "sleeping", !.attempt = attempt,
                                  !.delay_exp = IF pow_overflows(attempt) THEN 0
                                                ELSE attempt - 1]
    /\ UNCHANGED <<rt_in, nonRetryVars>>

\* tokio::time::sleep(..).await is over
SleepElapsed ==
    /\ rt.pc = "sleeping"
    /\ rt' = [rt EXCEPT !.pc = "call"]
    /\ UNCHANGED <<rt_in, nonRetryVars>>

(***************************************************************************)
(* WalletEntity (wallet_patterns.rs).  Decimal amounts are whole numbers of *)
(* cents.  An i64 is written from the nearer end of its range: Near0(n) is  *)
(* n and NearMax(n) is i64::MAX - n, for small n.                            *)
(***************************************************************************)

Near0(n) == [top |-> FALSE, n |-> n]

NearMax(n) == [top |-> TRUE, n |-> n]

\* a < b on i64
i64_lt(a, b) ==
    IF a.top = b.top THEN (IF a.top THEN a.n > b.n ELSE a.n < b.n)
    ELSE b.top

\* a + b without saturation: above i64::MAX the value is NearMax(n) with n < 0
i64_add(a, b) ==
    CASE ~a.top /\ ~b.top -> Near0(a.n + b.n)
      [] a.top /\ ~b.top -> NearMax(a.n - b.n)
      [] ~a.top /\ b.top -> NearMax(b.n - a.n)
      [] OTHER -> NearMax(-1)

\* i64::saturating_add for b >= 0
saturating_add(a, b) ==
    LET sum == i64_add(a, b)
    IN  IF sum.top /\ sum.n < 0 THEN NearMax(0) ELSE sum

\* a - b for 0 <= b <= a
i64_sub(a, b) ==
    CASE ~a.top /\ ~b.top -> Near0(a.n - b.n)
      [] a.top /\ ~b.top -> NearMax(a.n + b.n)
      [] OTHER -> Near0(b.n - a.n)

MaxMoney == 40

MaxTokens == 4

\* the values the model follows: money up to MaxMoney, tokens within
\* MaxTokens of an end of the i64 range
Followed(w) ==
    /\ w.balance <= MaxMoney /\ w.pending_balance <= MaxMoney
    /\ w.lifetime_earnings <= MaxMoney /\ w.lifetime_spending <= MaxMoney
    /\ w.tokens.n <= MaxTokens

WalletOk(op) == [op |-> op, result |-> "Ok"]

WalletErr(op, e) == [op |-> op, result |-> e]

\* pub fn add_balance(&mut self, amount, description)
add_balance(amount) ==
    /\ IF amount <= 0
       THEN /\ w_result' = WalletErr("add_balance", "InvalidAmount")
            /\ UNCHANGED wallet
       ELSE /\ wallet' = [wallet EXCEPT !.balance = @ + amount,
                              !.lifetime_earnings = @ + amount, !.updated_at = now]
            /\ w_result' = WalletOk("add_balance")
    /\ Followed(wallet')
    /\ UNCHANGED nonWalletVars

\* pub fn subtract_balance(&mut self, amount, description)
subtract_balance(amount) ==
    /\ IF amount <= 0
       THEN /\ w_result' = WalletErr("subtract_balance", "InvalidAmount")
            /\ UNCHANGED wallet
       ELSE IF wallet.balance < amount
       THEN /\ w_result' = WalletErr("subtract_balance", "InsufficientFunds")
            /\ UNCHANGED wallet
       ELSE /\ wallet' = [wallet EXCEPT !.balance = @ - amount,
                              !.lifetime_spending = @ + amount, !.updated_at = now]
            /\ w_result' = WalletOk("subtract_balance")
    /\ Followed(wallet')
    /\ UNCHANGED nonWalletVars

\* add_tokens with a plain addition
add_tokens_wrapping(tokens) ==
    /\ IF i64_lt(tokens, Near0(0))
       THEN /\ w_result' = WalletErr("add_tokens", "InvalidAmount")
            /\ UNCHANGED wallet
       ELSE /\ wallet' = [wallet EXCEPT !.tokens = i64_add(@, tokens), !.updated_at = now]
            /\ w_result' = WalletOk("add_tokens")
    /\ Followed(wallet')
    /\ UNCHANGED nonWalletVars

\* pub fn add_tokens(&mut self, tokens: i64, description)
add_tokens(tokens) ==
    /\ IF i64_lt(tokens, Near0(0))
       THEN /\ w_result' = WalletErr("add_tokens", "InvalidAmount")
            /\ UNCHANGED wallet
       ELSE /\ wallet' = [wallet EXCEPT !.tokens = saturating_add(@, tokens),
                              !.updated_at = now]
            /\ w_result' = WalletOk("add_tokens")
    /\ Followed(wallet')
    /\ UNCHANGED nonWalletVars

\* pub fn spend_tokens(&mut self, tokens: i64, description)
spend_tokens(tokens) ==
    /\ IF i64_lt(tokens, Near0(0))
       THEN /\ w_result' = WalletErr("spend_tokens", "InvalidAmount")
            /\ UNCHANGED wallet
       ELSE IF i64_lt(wallet.tokens, tokens)
       THEN /\ w_result' = WalletErr("spend_tokens", "InsufficientFunds")
            /\ UNCHANGED wallet
       ELSE /\ wallet' = [wallet EXCEPT !.tokens = i64_sub(@, tokens), !.updated_at = now]
            /\ w_result' = WalletOk("spend_tokens")
    /\ Followed(wallet')
    /\ UNCHANGED nonWalletVars

\* pub fn add_pending(&mut self, amount, description)
add_pending(amount) ==
    /\ IF amount <= 0
       THEN /\ w_result' = WalletErr("add_pending", "InvalidAmount")
            /\ UNCHANGED wallet
       ELSE /\ wallet' = [wallet EXCEPT !.pending_balance = @ + amount, !.updated_at = now]
            /\ w_result' = WalletOk("add_pending")
    /\ Followed(wallet')
    /\ UNCHANGED nonWalletVars

\* clear_pending that leaves lifetime_earnings alone
clear_pending_no_earnings(amount) ==
    /\ IF amount <= 0 \/ wallet.pending_balance < amount
       THEN /\ w_result' = WalletErr("clear_pending", "InvalidAmount")
            /\ UNCHANGED wallet
       ELSE /\ wallet' = [wallet EXCEPT !.pending_balance = @ - amount,
                              !.balance = @ + amount, !.updated_at = now]
            /\ w_result' = WalletOk("clear_pending")
    /\ Followed(wallet')
    /\ UNCHANGED nonWalletVars

\* pub fn clear_pending(&mut self, amount, description)
clear_pending(amount) ==
    /\ IF amount <= 0 \/ wallet.pending_balance < amount
       THEN /\ w_result' = WalletErr("clear_pending", "InvalidAmount")
            /\ UNCHANGED wallet
       ELSE /\ wallet' = [wallet EXCEPT !.pending_balance = @ - amount,
                              !.balance = @ + amount,
                              !.lifetime_earnings = @ + amount, !.updated_at = now]
            /\ w_result' = WalletOk("clear_pending")
    /\ Followed(wallet')
    /\ UNCHANGED nonWalletVars

\* pub fn cancel_pending(&mut self, amount, description)
cancel_pending(amount) ==
    /\ IF amount <= 0 \/ wallet.pending_balance < amount
       THEN /\ w_result' = WalletErr("cancel_pending", "InvalidAmount")
            /\ UNCHANGED wallet
       ELSE /\ wallet' = [wallet EXCEPT !.pending_balance = @ - amount, !.updated_at = now]
            /\ w_result' = WalletOk("cancel_pending")
    /\ Followed(wallet')
    /\ UNCHANGED nonWalletVars

\* pub fn lock(&mut self, reason: &str)
lock(reason) ==
    /\ IF wallet.locked
       THEN /\ w_result' = WalletErr("lock", "InvalidAmount")
            /\ UNCHANGED wallet
       ELSE /\ wallet' = [wallet EXCEPT !.locked = TRUE, !.locked_at = Some(now),
                              !.lock_reason = Some(reason), !.updated_at = now]
            /\ w_result' = WalletOk("lock")
    /\ UNCHANGED nonWalletVars

\* pub fn unlock(&mut self)
unlock ==
    /\ IF ~wallet.locked
       THEN /\ w_result' = WalletErr("unlock", "InvalidAmount")
            /\ UNCHANGED wallet
       ELSE /\ wallet' = [wallet EXCEPT !.locked = FALSE, !.locked_at = None,
                              !.lock_reason = None, !.updated_at = now]
            /\ w_result' = WalletOk("unlock")
    /\ UNCHANGED nonWalletVars

\* pub fn is_active(&self) -> bool
is_active == ~wallet.locked

WalletAmounts == {-10, 0, 10, 30}

TokenAmounts == {Near0(-1), Near0(0), Near0(2), NearMax(1), NearMax(0)}

\* an unlocked wallet with non-negative balances and tokens
NewWallets ==
    [balance : {0, 20}, pending_balance : {0, 10}, tokens : {Near0(0), NearMax(1)},
     lifetime_earnings : {0, 20}, lifetime_spending : {0},
     locked : {FALSE}, locked_at : {None}, lock_reason : {None}, updated_at : {0}]

NoWalletResult == [op |-> "-", result |-> "Ok"]

(***************************************************************************)
(* StatusStateMachine: to_str and FromStr (status_patterns.rs)              *)
(***************************************************************************)

\* pub fn to_str(&self) -> &'static str
to_str(self) ==
    CASE self = "Pending" -> "pending"
      [] self = "AwaitingPayment" -> "awaiting_payment"
      [] self = "PaymentProcessing" -> "payment_processing"
      [] self = "Paid" -> "paid"
      [] self = "Processing" -> "processing"
      [] self = "PartiallyFulfilled" -> "partially_fulfilled"
      [] self = "Fulfilled" -> "fulfilled"
      [] self = "Shipped" -> "shipped"
      [] self = "PartiallyShipped" -> "partially_shipped"
      [] self = "OutForDelivery" -> "out_for_delivery"
      [] self = "Delivered" -> "delivered"
      [] self = "Cancelled" -> "cancelled"
      [] self = "Refunded" -> "refunded"
      [] self = "PartiallyRefunded" -> "partially_refunded"
      [] self = "Disputed" -> "disputed"
      [] self = "Failed" -> "failed"
      [] self = "Expired" -> "expired"
      [] self = "Authorized" -> "authorized"
      [] self = "Captured" -> "captured"
      [] self = "Returned" -> "returned"
      [] self = "Active" -> "active"
      [] self = "Inactive" -> "inactive"
      [] self = "Suspended" -> "suspended"
      [] self = "Deleted" -> "deleted"
      [] OTHER -> "unknown"

\* frames of from_str the thread's stack has room for
MaxStack == 100

\* the strings read back: every to_str name, a Debug name, other text
FromStrInputs == {to_str(s) : s \in StatusNames} \cup {"unknown", "Pending", ""}

NoFromStr == [pc |-> "idle", depth |-> 0, result |-> "-"]

\* from_str(s) is called (directly, or by .parse() in a row mapper)
CallFromStr ==
    /\ fs_out.pc = "idle"
    /\ fs_out' = [fs_out EXCEPT !.pc = "running", !.depth = 1]
    /\ UNCHANGED <<fs_in, nonFromStrVars>>

\* the arm "pending": s.parse::<Self>() is from_str(s) again, in a new frame
ParseSelf ==
    /\ fs_out.pc = "running" /\ fs_in = "pending"
    /\ fs_out.depth < MaxStack
    /\ fs_out' = [fs_out EXCEPT !.depth = @ + 1]
    /\ UNCHANGED <<fs_in, nonFromStrVars>>

\* no room for the next frame: the stack overflows and the process is aborted
StackOverflow ==
    /\ fs_out.pc = "running" /\ fs_in = "pending"
    /\ fs_out.depth >= MaxStack
    /\ fs_out' = [fs_out EXCEPT !.pc = "aborted"]
    /\ UNCHANGED <<fs_in, nonFromStrVars>>

\* the arm _ => {} and then Err(error_msg)
ReturnErr ==
    /\ fs_out.pc = "running" /\ fs_in # "pending"
    /\ fs_out' = [fs_out EXCEPT !.pc = "returned", !.depth = @ - 1, !.result = "Err"]
    /\ UNCHANGED <<fs_in, nonFromStrVars>>

(***************************************************************************)
(* Specifications                                                           *)
(***************************************************************************)

IdleSm == sm_status = "Pending" /\ sm_check = NoCheck /\ sm_pred = NoPred

IdleEntity ==
    /\ now = 0 /\ obj = NoStatus
    /\ payment = NewPayment /\ pay_result = NoResult
    /\ subscription = NewSubscription("Monthly") /\ sub_result = NoResult

IdleCpf == cpf_input = <<>> /\ cpf_out = NoCpfOut

IdlePhone == phone_input = <<>> /\ phone_out = NoPhoneOut

IdleCrc == crc_input = <<>> /\ crc_out = NoCrcOut

IdlePix == pix = <<>> /\ pix_out = NoPixOut

IdleTax == tax_in = <<>> /\ tax_out = NoTaxOut

IdleBtx == btx_in = <<>> /\ btx_out = NoBtxOut

IdleZone == zone_in = <<>> /\ zone_out = NoZoneOut

IdlePro == pro_in = <<>> /\ pro_out = NoProOut

IdleBrl == brl_in = [amount |-> Dec(0, 0), text |-> <<>>] /\ brl_out = NoBrlOut

IdleXfer == xfer_in = <<>> /\ xfer_out = NoXferOut

IdleLock ==
    /\ lk_ids = [c \in Calls |-> <<>>]
    /\ lk_pc = [c \in Calls |-> NotStarted]
    /\ lk_held = [c \in Calls |-> <<>>]

IdleRetry == rt_in = <<>> /\ rt = NoRetry

IdleWallet == wallet = <<>> /\ w_result = NoWalletResult

IdleFromStr == fs_in = "" /\ fs_out = NoFromStr

IdleExt == IdleXfer /\ IdleLock /\ IdleRetry /\ IdleWallet /\ IdleFromStr

IdlePure ==
    IdleCrc /\ IdlePix /\ IdleTax /\ IdleBtx /\ IdleZone /\ IdlePro /\ IdleBrl

IdleDoc == IdleSm /\ IdleEntity /\ IdleCpf /\ IdlePhone

IdleOld == IdleDoc /\ IdlePure

\* StatusStateMachine: an enum value of any variant
InitStatus ==
    /\ sm_status \in StatusNames /\ sm_check = NoCheck /\ sm_pred = NoPred
    /\ IdleEntity /\ IdleCpf /\ IdlePhone /\ IdlePure /\ IdleExt

NextStatus ==
    \/ \E new_status \in StatusNames : CheckTransition(new_status)
    \/ ApplyTransition
    \/ CallCanBeCancelled
    \/ CallCanBeRefunded

SpecStatus == InitStatus /\ [][NextStatus]_vars

\* PaymentEntity: a new payment
InitPayment ==
    /\ now = 0 /\ obj = "Payment"
    /\ payment = NewPayment /\ pay_result = NoResult
    /\ subscription = NewSubscription("Monthly") /\ sub_result = NoResult
    /\ IdleSm /\ IdleCpf /\ IdlePhone /\ IdlePure /\ IdleExt

NextPayment ==
    \/ \E d \in TickSteps : Tick(d)
    \/ mark_processing
    \/ mark_completed
    \/ \E reason \in Reasons : mark_failed(reason)
    \/ mark_refunded

SpecPayment == InitPayment /\ [][NextPayment]_vars

\* Payment or subscription, with every status-changing operation
InitLifecycle ==
    /\ now = 0 /\ obj \in {"Payment", "Subscription"}
    /\ payment = NewPayment /\ pay_result = NoResult
    /\ \E interval \in BillingInterval :
            subscription = NewSubscription(IF obj = "Subscription" THEN interval ELSE "Monthly")
    /\ sub_result = NoResult
    /\ IdleSm /\ IdleCpf /\ IdlePhone /\ IdlePure /\ IdleExt

NextLifecycle ==
    \/ \E d \in TickSteps : Tick(d)
    \/ mark_processing
    \/ mark_completed
    \/ \E reason \in Reasons : mark_failed(reason)
    \/ mark_refunded
    \/ \E end_to_end_id \in EndToEndIds : process_pix_confirmation(end_to_end_id)
    \/ \E trial_days \in TrialDays : start_trial(trial_days)
    \/ convert_trial_to_paid
    \/ \E reason \in {None, Some("requested")} : pause(reason)
    \/ resume
    \/ \E reason \in {None, Some("requested")} : cancel(reason)
    \/ mark_past_due
    \/ update_billing_period

SpecLifecycle == InitLifecycle /\ [][NextLifecycle]_vars

\* CPF functions applied to one input string
InitCpf ==
    /\ cpf_input \in CpfInputs /\ cpf_out = NoCpfOut
    /\ IdleSm /\ IdleEntity /\ IdlePhone /\ IdlePure /\ IdleExt

NextCpf ==
    \/ CallValidateCpf
    \/ CallPixValidateCpf
    \/ CallIsValidCpf
    \/ CallFormatCpf
    \/ CallBrazilianFormatCpf
    \/ CallFormatCpfTwice

SpecCpf == InitCpf /\ [][NextCpf]_vars

\* Phone validators applied to one input string
InitPhone ==
    /\ phone_input \in PhoneInputs /\ phone_out = NoPhoneOut
    /\ IdleSm /\ IdleEntity /\ IdleCpf /\ IdlePure /\ IdleExt

NextPhone ==
    \/ CallValidateBrazilianPhone
    \/ CallBrazilianValidateBrazilianPhone

SpecPhone == InitPhone /\ [][NextPhone]_vars

\* calculate_crc16 applied to one text
InitCrc ==
    /\ crc_input \in CrcInputs /\ crc_out = NoCrcOut
    /\ IdleDoc /\ IdlePix /\ IdleTax /\ IdleBtx /\ IdleZone /\ IdlePro /\ IdleBrl /\ IdleExt

NextCrc == CallCalculateCrc16

SpecCrc == InitCrc /\ [][NextCrc]_vars

\* PixPayment: a struct with any of the keys, amounts, names and ids
InitPix ==
    /\ pix \in PixPayments /\ pix_out = NoPixOut
    /\ IdleDoc /\ IdleCrc /\ IdleTax /\ IdleBtx /\ IdleZone /\ IdlePro /\ IdleBrl /\ IdleExt

NextPix ==
    \/ CallGenerateQrPayload
    \/ CallGenerateQrPayloadTwice
    \/ CallValidatePixKey

SpecPix == InitPix /\ [][NextPix]_vars

\* BrazilianTaxEntity: the tax functions applied to one subtotal and state
InitTax ==
    /\ tax_in \in TaxInputs /\ tax_out = NoTaxOut
    /\ IdleDoc /\ IdleCrc /\ IdlePix /\ IdleBtx /\ IdleZone /\ IdlePro /\ IdleBrl /\ IdleExt

NextTax ==
    \/ CallCalculateIcms
    \/ CallCalculatePis
    \/ CallCalculateCofins
    \/ CallCalculateTotalTax

SpecTax == InitTax /\ [][NextTax]_vars

\* BrazilianPaymentEntity: one amount and one list of exemptions
InitBtx ==
    /\ btx_in \in BtxInputs /\ btx_out = NoBtxOut
    /\ IdleDoc /\ IdleCrc /\ IdlePix /\ IdleTax /\ IdleZone /\ IdlePro /\ IdleBrl /\ IdleExt

NextBtx ==
    \/ CallCalculateBrazilianTaxes
    \/ CallApplyTaxExemptions

SpecBtx == InitBtx /\ [][NextBtx]_vars

\* ShippingEntity: one route between two states
InitZone ==
    /\ zone_in \in ZoneInputs /\ zone_out = NoZoneOut
    /\ IdleDoc /\ IdleCrc /\ IdlePix /\ IdleTax /\ IdleBtx /\ IdlePro /\ IdleBrl /\ IdleExt

NextZone ==
    \/ CallCalculateZoneMultiplier
    \/ CallCalculateZoneMultiplierAgain

SpecZone == InitZone /\ [][NextZone]_vars

\* SubscriptionEntity: one proration request at one instant
InitPro ==
    /\ pro_in \in ProInputs /\ pro_out = NoProOut
    /\ IdleDoc /\ IdleCrc /\ IdlePix /\ IdleTax /\ IdleBtx /\ IdleZone /\ IdleBrl /\ IdleExt

NextPro == CallCalculateProration

SpecPro == InitPro /\ [][NextPro]_vars

InitBrl ==
    /\ brl_in \in [amount : BrlAmounts, text : BrlTexts]
    /\ brl_out = NoBrlOut
    /\ IdleDoc /\ IdleCrc /\ IdlePix /\ IdleTax /\ IdleBtx /\ IdleZone /\ IdlePro /\ IdleExt

NextBrl == CallFormatBrlAmount \/ CallParseBrlAmount \/ CallParseFormatted

SpecBrl == InitBrl /\ [][NextBrl]_vars

InitXfer ==
    /\ xfer_in \in XferInputs
    /\ xfer_out = NoXferOut
    /\ IdleOld /\ IdleLock /\ IdleRetry /\ IdleWallet /\ IdleFromStr

NextXfer == CallAtomicTransfer \/ ReadAccounts

SpecXfer == InitXfer /\ [][NextXfer]_vars

InitLocks ==
    /\ lk_ids \in [Calls -> LockRequests]
    /\ lk_pc = [c \in Calls |-> NotStarted]
    /\ lk_held = [c \in Calls |-> <<>>]
    /\ IdleOld /\ IdleXfer /\ IdleRetry /\ IdleWallet /\ IdleFromStr

NextLocks ==
    \E c \in Calls :
        \/ BeginOrdered(c)
        \/ AcquireLock(c)
        \/ RunOperation(c)
        \/ LockWaitFails(c)

SpecLocks == InitLocks /\ [][NextLocks]_vars

InitRetry ==
    /\ rt_in \in RetryInputs
    /\ rt = NoRetry
    /\ IdleOld /\ IdleXfer /\ IdleLock /\ IdleWallet /\ IdleFromStr

NextRetry ==
    \/ CallRetryTransaction
    \/ \E outcome \in Outcomes : InvokeOperation(outcome)
    \/ SleepElapsed

SpecRetry == InitRetry /\ [][NextRetry]_vars

InitWallet ==
    /\ wallet \in NewWallets
    /\ w_result = NoWalletResult
    /\ IdleOld /\ IdleXfer /\ IdleLock /\ IdleRetry /\ IdleFromStr

NextWallet ==
    \/ \E amount \in WalletAmounts : add_balance(amount)
    \/ \E amount \in WalletAmounts : subtract_balance(amount)
    \/ \E tokens \in TokenAmounts : add_tokens(tokens)
    \/ \E tokens \in TokenAmounts : spend_tokens(tokens)
    \/ \E amount \in WalletAmounts : add_pending(amount)
    \/ \E amount \in WalletAmounts : clear_pending(amount)
    \/ \E amount \in WalletAmounts : cancel_pending(amount)
    \/ lock(<<"f", "r", "a", "u", "d">>)
    \/ unlock

SpecWallet == InitWallet /\ [][NextWallet]_vars

InitFromStr ==
    /\ fs_in \in FromStrInputs
    /\ fs_out = NoFromStr
    /\ IdleOld /\ IdleXfer /\ IdleLock /\ IdleRetry /\ IdleWallet

NextFromStr == CallFromStr \/ ParseSelf \/ StackOverflow \/ ReturnErr

\* a call that has begun keeps running
SpecFromStr == InitFromStr /\ [][NextFromStr]_vars /\ WF_vars(NextFromStr)

(***************************************************************************)
(* Properties                                                               *)
(***************************************************************************)

\* The transition table, as the set of statuses that may follow each status
AllowedNext(s) ==
    CASE s = "Pending" -> {"AwaitingPayment", "PaymentProcessing", "Paid", "Failed", "Cancelled"}
      [] s = "AwaitingPayment" -> {"PaymentProcessing", "Paid", "Failed", "Cancelled", "Expired"}
      [] s = "PaymentProcessing" -> {"Paid", "Failed", "Cancelled", "Authorized"}
      [] s = "Authorized" -> {"Captured", "Cancelled", "Expired"}
      [] s = "Captured" -> {"Processing", "Refunded"}
      [] s = "Paid" -> {"Processing", "Cancelled", "Refunded"}
      [] s = "Processing" -> {"Fulfilled", "PartiallyFulfilled", "Cancelled", "Failed"}
      [] s = "PartiallyFulfilled" -> {"Fulfilled", "Cancelled"}
      [] s = "Fulfilled" -> {"Shipped", "PartiallyShipped"}
      [] s = "PartiallyShipped" -> {"Shipped"}
      [] s = "Shipped" -> {"OutForDelivery", "Delivered", "Returned"}
      [] s = "OutForDelivery" -> {"Delivered", "Returned"}
      [] s = "Delivered" -> {"Refunded", "PartiallyRefunded", "Disputed", "Returned"}
      [] s = "PartiallyRefunded" -> {"Refunded", "Disputed"}
      [] s = "Returned" -> {"Refunded"}
      [] s = "Active" -> {"Inactive", "Suspended", "Deleted"}
      [] s = "Inactive" -> {"Active", "Deleted"}
      [] s = "Suspended" -> {"Active", "Deleted"}
      [] OTHER -> {}

\* C1: for every ordered pair (from, to) of known status names,
\* can_transition_to returns true when from = to, true when to is one of the
\* statuses the table lists after from, and false for every other pair.
C1_TableExact ==
    sm_check # NoCheck =>
        (sm_check.result <=>
            (sm_check.from = sm_check.to \/ sm_check.to \in AllowedNext(sm_check.from)))

\* C1 witness: a pair outside the table was asked and refused
C1_Witness ==
    sm_check.from = "Delivered" /\ sm_check.to = "Pending" /\ ~sm_check.result

\* C2: along status changes permitted by can_transition_to, Cancelled,
\* Refunded, Failed, Expired, Disputed and Deleted never change again;
\* Delivered changes only to Refunded, PartiallyRefunded, Disputed or
\* Returned; Returned changes only to Refunded.
C2_TerminalStay ==
    [][ /\ (sm_status \in {"Cancelled", "Refunded", "Failed", "Expired", "Disputed", "Deleted"}
                => sm_status' = sm_status)
        /\ (sm_status = "Delivered" =>
                sm_status' \in {"Delivered", "Refunded", "PartiallyRefunded", "Disputed", "Returned"})
        /\ (sm_status = "Returned" => sm_status' \in {"Returned", "Refunded"}) ]_vars

\* C2 witness: a Cancelled status whose change to Pending was asked and refused
C2_Witness ==
    sm_status = "Cancelled" /\ sm_check.from = "Cancelled" /\ sm_check.to = "Pending"
        /\ ~sm_check.result

\* C3 (as claimed): every status change made by a PaymentEntity operation is
\* a transition can_transition_to allows, Pending to Processing included.
C3_ChangesFollowTable ==
    [][payment.status' # payment.status
        => can_transition_to(payment.status, payment.status')]_vars

\* C4: whenever an operation changes the status of the payment or of the
\* subscription, the same call sets updated_at to the time of the call.
C4_StatusChangeTouches ==
    [][ /\ (payment.status' # payment.status => payment.updated_at' = now')
        /\ (subscription.status' # subscription.status => subscription.updated_at' = now') ]_vars

\* C4 witness: a pause some time after construction has stamped updated_at
C4_Witness ==
    sub_result.op = "pause" /\ sub_result.ok /\ subscription.status = "Paused"
        /\ subscription.updated_at = now /\ now > 0

\* C5 (as claimed): the status becomes Completed only from Processing.
C5_CompletedOnlyFromProcessing ==
    [][payment.status' = "Completed" /\ payment.status # "Completed"
        => payment.status = "Processing"]_vars

\* the status each PaymentEntity operation sets
TargetStatus(op) ==
    CASE op = "mark_processing" -> "Processing"
      [] op = "mark_completed" -> "Completed"
      [] op = "mark_failed" -> "Failed"
      [] op = "mark_refunded" -> "Refunded"
      [] OTHER -> NoStatus

\* C6: a rejected PaymentEntity operation returns InvalidStateTransition with
\* from = the current status and to = the status it would have set, and leaves
\* status, completed_at, failed_at, failure_reason and updated_at unchanged.
C6_RejectedLeavesPayment ==
    [][~pay_result'.ok =>
        /\ payment' = payment
        /\ pay_result'.from = payment.status
        /\ pay_result'.to = TargetStatus(pay_result'.op)]_vars

\* C6 witness: mark_failed was rejected on a Completed payment
C6_Witness ==
    ~pay_result.ok /\ pay_result.op = "mark_failed" /\ payment.status = "Completed"
        /\ payment.failure_reason = None

DigitSet == {"0", "1", "2", "3", "4", "5", "6", "7", "8", "9"}

\* the numeric value of a digit character
DigitValue(c) ==
    CASE c = "0" -> 0 [] c = "1" -> 1 [] c = "2" -> 2 [] c = "3" -> 3 [] c = "4" -> 4
      [] c = "5" -> 5 [] c = "6" -> 6 [] c = "7" -> 7 [] c = "8" -> 8 [] c = "9" -> 9

\* the input with its non-digit characters discarded
StripNonDigits(s) == SelectSeq(s, LAMBDA c : c \in DigitSet)

\* f(x) = 0 if x is 0 or 1, 11 - x otherwise
F11(x) == IF x = 0 \/ x = 1 THEN 0 ELSE 11 - x

\* the CPF rule: 11 digits, not all identical, both check digits as computed
CpfRule(s) ==
    LET ds == StripNonDigits(s)
        n(i) == DigitValue(ds[i + 1])
    IN /\ Len(ds) = 11
       /\ \E i \in 2..11 : ds[i] # ds[1]
       /\ n(9) = F11((10 * n(0) + 9 * n(1) + 8 * n(2) + 7 * n(3) + 6 * n(4) + 5 * n(5)
                        + 4 * n(6) + 3 * n(7) + 2 * n(8)) % 11)
       /\ n(10) = F11((11 * n(0) + 10 * n(1) + 9 * n(2) + 8 * n(3) + 7 * n(4) + 6 * n(5)
                        + 5 * n(6) + 4 * n(7) + 3 * n(8) + 2 * n(9)) % 11)

Cpf11144477735 == <<"1", "1", "1", ".", "4", "4", "4", ".", "7", "7", "7", "-", "3", "5">>

Cpf12345678909 == <<"1", "2", "3", ".", "4", "5", "6", ".", "7", "8", "9", "-", "0", "9">>

CpfShape(s) ==
    /\ Len(s) = 14
    /\ s[4] = "." /\ s[8] = "." /\ s[12] = "-"
    /\ \A i \in (1..14) \ {4, 8, 12} : s[i] \in DigitSet

ElevenDigits(s) == Len(s) = 11 /\ \A i \in 1..11 : s[i] \in DigitSet

\* C9: for every string d of exactly 11 digits, format_cpf(d) has the shape
\* XXX.XXX.XXX-XX, removing its non-digits gives back d, and formatting the
\* result again leaves it unchanged (both copies of format_cpf).
C9_FormatRoundTrip ==
    ElevenDigits(cpf_input) =>
        /\ "format_cpf" \in cpf_out.called =>
                CpfShape(cpf_out.format_cpf) /\ StripNonDigits(cpf_out.format_cpf) = cpf_input
        /\ "brazilian_format_cpf" \in cpf_out.called =>
                /\ CpfShape(cpf_out.brazilian_format_cpf)
                /\ StripNonDigits(cpf_out.brazilian_format_cpf) = cpf_input
        /\ "format_twice" \in cpf_out.called => cpf_out.format_twice = cpf_out.format_cpf

\* C9 witness: 12345678909 was formatted to 123.456.789-09 and formatted again
C9_Witness ==
    /\ cpf_input = <<"1", "2", "3", "4", "5", "6", "7", "8", "9", "0", "9">>
    /\ "format_twice" \in cpf_out.called
    /\ cpf_out.format_cpf = Cpf12345678909
    /\ cpf_out.format_twice = Cpf12345678909

\* the phone rule: 10 digits; 11 digits with digit 2 in 6..9; 13 digits
\* starting with 55
PhoneRule(s) ==
    LET ds == StripNonDigits(s) IN
    \/ Len(ds) = 10
    \/ Len(ds) = 11 /\ ds[3] \in {"6", "7", "8", "9"}
    \/ Len(ds) = 13 /\ ds[1] = "5" /\ ds[2] = "5"

\* C10 (as claimed): the validate_brazilian_phone exported by the
\* BrazilianEntity derive accepts exactly: any 10 digits; 11 digits whose digit
\* at index 2 is 6..9; 13 digits starting with 55.
C10_PhoneRuleExported ==
    "validate_brazilian_phone" \in phone_out.called =>
        (phone_out.validate_brazilian_phone <=> PhoneRule(phone_input))

\* CRC-16/CCITT-FALSE bit by bit: the register after bits j..0 of byte
\* (7 = most significant) entered a register holding reg
RECURSIVE CcittBits(_, _, _)
CcittBits(reg, byte, j) ==
    LET bit == (byte \div (2 ^ j)) % 2
        top == ((reg \div 32768) + bit) % 2
        low == (reg % 32768) * 2
        nxt == IF top = 1 THEN BitXor(low, POLYNOMIAL, 16) ELSE low
    IN  IF j = 0 THEN nxt ELSE CcittBits(nxt, byte, j - 1)

\* ... and after bytes lo..hi of bs
RECURSIVE CcittFalse(_, _, _, _)
CcittFalse(reg, bs, lo, hi) ==
    IF lo > hi THEN reg
    ELSE IF lo = hi THEN CcittBits(reg, bs[lo], 7)
    ELSE LET mid == (lo + hi) \div 2
             r == CcittFalse(reg, bs, lo, mid)
         IN  IF r < 0 THEN r ELSE CcittFalse(r, bs, mid + 1, hi)

\* C11: calculate_crc16 is CRC-16/CCITT-FALSE (polynomial 0x1021, initial
\* register 0xFFFF, most significant bit first, no final XOR), the register
\* never leaves 0..0xFFFF, the empty text gives 0xFFFF and "123456789" gives
\* 0x29B1.
C11_CrcCcittFalse ==
    crc_out.called # {} =>
        /\ crc_out.crc = CcittFalse(65535, bytes(crc_input), 1, Len(crc_input))
        /\ crc_out.registers \subseteq 0..65535
        /\ crc_out.crc \in crc_out.registers
        /\ (crc_input = <<>> => crc_out.crc = 65535)
        /\ (crc_input = CheckString => crc_out.crc = 10673)

C11_Witness ==
    crc_out.called # {} /\ crc_input = CheckString /\ crc_out.crc = 10673

\* the last n characters of s
LastN(s, n) == SubSeq(s, Len(s) - n + 1, Len(s))

\* s without its last n characters
DropLastN(s, n) == SubSeq(s, 1, Len(s) - n)

UpperHex == {HexChars[i] : i \in 1..16}

\* the payload ends with 6304 and the four upper-case hexadecimal digits of
\* the CRC16 of everything before them
CrcTrailer(p) ==
    /\ Len(p) >= 8
    /\ SubSeq(LastN(p, 8), 1, 4) = <<"6", "3", "0", "4">>
    /\ \A i \in 1..4 : LastN(p, 4)[i] \in UpperHex
    /\ LastN(p, 4) = fmt_04X(calculate_crc16(DropLastN(p, 4)))

\* C12 as stated: every payload of generate_qr_payload ends with 6304 and the
\* CRC16 of the payload up to and including 6304 as four upper-case
\* hexadecimal digits, and two calls on the same pix_key, amount,
\* merchant_name and end_to_end_id return the same payload.
C12_TrailerAndSamePayload ==
    /\ \A i \in 1..Len(pix_out.payloads) : CrcTrailer(pix_out.payloads[i])
    /\ "twice" \in pix_out.called => pix_out.payloads[1] = pix_out.payloads[2]

\* C12 amended: the trailer as above, and two calls return the same payload
\* when end_to_end_id is Some; with None each call draws a transaction id of
\* its own.
C12_TrailerAndSamePayloadWithId ==
    /\ \A i \in 1..Len(pix_out.payloads) : CrcTrailer(pix_out.payloads[i])
    /\ ("twice" \in pix_out.called /\ pix.end_to_end_id # None)
           => pix_out.payloads[1] = pix_out.payloads[2]

C12_Witness ==
    /\ "twice" \in pix_out.called
    /\ pix.end_to_end_id # None
    /\ CrcTrailer(pix_out.payloads[1])
    /\ pix_out.payloads[1] = pix_out.payloads[2]

Malformed == [tag |-> <<"?">>, value |-> <<>>]

\* p from position i read as tag(2) length(2 decimal digits) value(length)
\* fields, one after the other; Malformed where that cannot be done
RECURSIVE ParseTlv(_, _)
ParseTlv(p, i) ==
    IF i > Len(p) THEN <<>>
    ELSE IF i + 3 > Len(p) \/ ~is_ascii_digit(p[i + 2]) \/ ~is_ascii_digit(p[i + 3])
    THEN <<Malformed>>
    ELSE LET n == 10 * to_digit(p[i + 2]) + to_digit(p[i + 3])
         IN  IF i + 3 + n > Len(p) THEN <<Malformed>>
             ELSE <<[tag |-> SubSeq(p, i, i + 1),
                     value |-> SubSeq(p, i + 4, i + 3 + n)]>>
                  \o ParseTlv(p, i + 4 + n)

Tags(fields) == [k \in 1..Len(fields) |-> fields[k].tag]

TopLevelTags ==
    <<<<"0", "0">>, <<"0", "1">>, <<"2", "6">>, <<"5", "2">>, <<"5", "3">>,
      <<"5", "4">>, <<"5", "8">>, <<"5", "9">>, <<"6", "2">>, <<"6", "3">>>>

\* the payload parses into the ten fields, tag 26 into GUI and key, tag 62
\* into the transaction id, and tag 59 holds the start of the merchant name
WellFormedPayload(p, self) ==
    LET f == ParseTlv(p, 1) IN
    /\ Tags(f) = TopLevelTags
    /\ Tags(ParseTlv(f[3].value, 1)) = <<<<"0", "0">>, <<"0", "1">>>>
    /\ ParseTlv(f[3].value, 1)[2].value = self.pix_key
    /\ Tags(ParseTlv(f[9].value, 1)) = <<<<"0", "5">>>>
    /\ f[8].value = SubSeq(self.merchant_name, 1, name_len(self))

\* C13: every payload of generate_qr_payload, whatever the pix_key, amount,
\* merchant_name and end_to_end_id, has two-digit length fields throughout:
\* it parses as tag(2) length(2) value(length) fields with tags 00, 01, 26,
\* 52, 53, 54, 58, 59, 62, 63, tag 26 holding 00 and 01, tag 62 holding 05,
\* and tag 59 the first min(25, length) bytes of the merchant name.
C13_PayloadParsesBack ==
    \A i \in 1..Len(pix_out.payloads) : WellFormedPayload(pix_out.payloads[i], pix)

\* substring test: key occurs in p
Contains(p, key) ==
    \E i \in 1..(Len(p) - Len(key) + 1) : SubSeq(p, i, i + Len(key) - 1) = key

\* C14: a PIX key enters a payload only after its validator accepted it: when
\* validate_pix_key returns Err for the struct, generate_qr_payload produces
\* no payload containing the key.
C14_InvalidKeyNotEncoded ==
    validate_pix_key(pix) = "Err" =>
        \A i \in 1..Len(pix_out.payloads) : ~Contains(pix_out.payloads[i], pix.pix_key)

\* the value the claim gives for each function on subtotal and state:
\* subtotal times the rate, the goods total being the sum of the three
ClaimedTax(fn, subtotal, state) ==
    CASE fn = "calculate_icms" -> DecMul(subtotal, icms_tax_rate(state))
      [] fn = "calculate_pis" -> DecMul(subtotal, Dec(165, 4))
      [] fn = "calculate_cofins" -> DecMul(subtotal, Dec(760, 4))
      [] fn = "calculate_total_tax" ->
            DecMul(subtotal, DecAdd(icms_tax_rate(state), Dec(925, 4)))

ClaimedSaoPaulo(fn) ==
    CASE fn = "calculate_icms" -> Dec(180, 0)
      [] fn = "calculate_pis" -> Dec(165, 1)
      [] fn = "calculate_cofins" -> Dec(76, 0)
      [] fn = "calculate_total_tax" -> Dec(2725, 1)

\* C15: for subtotal 1000.00, state "SP" and goods, calculate_icms returns
\* 180.00, calculate_pis 16.50, calculate_cofins 76.00 and
\* calculate_total_tax 272.50, which leaves 727.50; in general the goods
\* total is subtotal x (state ICMS rate + 1.65% + 7.6%), exactly.
C15_GoodsTaxes ==
    \A fn \in tax_out.called :
        ~tax_in.is_service =>
            /\ tax_out.value = ClaimedTax(fn, tax_in.subtotal, tax_in.state)
            /\ (tax_in.subtotal = Dec(100000, 2) /\ tax_in.state = "SP") =>
                   /\ tax_out.value = ClaimedSaoPaulo(fn)
                   /\ fn = "calculate_total_tax" =>
                          DecSub(Norm(tax_in.subtotal), tax_out.value) = Dec(7275, 1)

\* C16: every BrazilianTaxBreakdown returned by calculate_brazilian_taxes or
\* by apply_tax_exemptions, for any list of exemptions (several of one tax
\* type included), has total_taxes = icms_amount + pis_amount + cofins_amount
\* and net_amount = gross_amount - total_taxes.
C16_BreakdownAddsUp ==
    (btx_out.called # {} /\ btx_out.result.ok) =>
        LET b == btx_out.result.breakdown IN
        /\ b.total_taxes = DecAdd(DecAdd(b.icms_amount, b.pis_amount), b.cofins_amount)
        /\ b.net_amount = DecSub(b.gross_amount, b.total_taxes)

C16_Witness ==
    /\ btx_out.called = {"apply_tax_exemptions"}
    /\ btx_out.result.ok
    /\ Len(btx_in.exemptions) = 2
    /\ btx_in.exemptions[1].tax_type = btx_in.exemptions[2].tax_type
    /\ btx_out.result.breakdown.total_taxes
           # calculate_brazilian_taxes(btx_in.amount).breakdown.total_taxes

Regions == {southeast, south, northeast, north, center}

\* one of a, b lies in r1 and the other in r2
Between(a, b, r1, r2) == (a \in r1 /\ b \in r2) \/ (a \in r2 /\ b \in r1)

\* the tiers of the claim, first match first
ClaimedMultiplier(a, b) ==
    IF a = b THEN Dec(100, 2)
    ELSE IF \E r \in Regions : a \in r /\ b \in r THEN Dec(120, 2)
    ELSE IF Between(a, b, southeast, south \cup center) THEN Dec(150, 2)
    ELSE IF Between(a, b, southeast, north) THEN Dec(180, 2)
    ELSE Dec(160, 2)

\* C17: for every ordered pair of the 27 state codes calculate_zone_multiplier
\* returns 1.00 for equal states, else 1.20 within one region, else 1.50
\* between the southeast and the south or center-west in either direction,
\* else 1.80 between the southeast and the north in either direction, and
\* 1.60 for every other pair; the result depends on the pair only.
C17_ZoneTiers ==
    zone_out.called # {} =>
        zone_out.value = ClaimedMultiplier(zone_in.origin, zone_in.dest)

\* the amount is exactly the fraction n/d of a cent
IsExactly(value, n, d) ==
    /\ ~value.rounded
    /\ value.num = Fraction(n, d).num
    /\ value.den = Fraction(n, d).den

\* C18: calculate_proration(new_price) returns exactly new_price when the time
\* is at or after current_period_end; new_price - price when the time equals
\* current_period_start (start < end); and at a time strictly inside the
\* period (new_price - price) x (end - now) / (end - start).
C18_Proration ==
    pro_out.called # {} =>
        LET period_start == pro_in.current_period_start
            period_end == pro_in.current_period_end
            diff == pro_in.new_price - pro_in.price
            left == Fraction(period_end - pro_in.now, period_end - period_start)
        IN
        /\ pro_in.now >= period_end => IsExactly(pro_out.value, pro_in.new_price, 1)
        /\ (pro_in.now = period_start /\ period_start < period_end) =>
               IsExactly(pro_out.value, diff, 1)
        /\ (period_start < pro_in.now /\ pro_in.now < period_end) =>
               IsExactly(pro_out.value, diff * left.num, left.den)

\* the integer n with a point between each group of three digits
RECURSIVE Grouped(_)
Grouped(n) ==
    IF n < 1000 THEN usize_to_string(n)
    ELSE Grouped(n \div 1000) \o <<".">> \o Digits(n % 1000, 3)

\* "R$ ", the grouped integer part, a comma and exactly two fraction digits
ClaimedBrl(a) ==
    <<"R", "$", " ">> \o Grouped(a.m \div (10 ^ a.s)) \o <<",">>
    \o Digits((a.m % (10 ^ a.s)) * (10 ^ (2 - a.s)), 2)

\* str is digits with at most one point among them and at least one digit
IsNumber(str) ==
    \E k \in 0..Len(str) :
        /\ \A i \in 1..Len(str) : i # k => is_ascii_digit(str[i])
        /\ k # 0 => str[k] = "."
        /\ Len(str) > (IF k = 0 THEN 0 ELSE 1)

\* C19: for a non-negative amount with at most two fraction digits
\* format_brl_amount returns "R$ ", the integer part with a point between
\* each group of three digits, a comma and exactly two fraction digits
\* (1234.56 gives "R$ 1.234,56", 100 gives "R$ 100,00"); parse_brl_amount of
\* that text is the amount; and parse_brl_amount fails with InvalidAmount on a
\* text that is not a number once the currency marks are removed.
C19_BrlRoundTrip ==
    /\ "format_brl_amount" \in brl_out.called =>
          /\ brl_out.text = ClaimedBrl(brl_in.amount)
          /\ brl_in.amount = Dec(123456, 2) =>
                brl_out.text = <<"R", "$", " ", "1", ".", "2", "3", "4", ",", "5", "6">>
          /\ brl_in.amount = Dec(100, 0) =>
                brl_out.text = <<"R", "$", " ", "1", "0", "0", ",", "0", "0">>
    /\ brl_out.called = {"format_brl_amount", "parse_brl_amount"} =>
          /\ brl_out.parsed.ok
          /\ Norm(brl_out.parsed.value) = Norm(brl_in.amount)
    /\ (brl_out.called = {"parse_brl_amount"} /\ ~IsNumber(cleaned(brl_in.text))) =>
          ~brl_out.parsed.ok

C19_Witness ==
    /\ brl_out.called = {"format_brl_amount", "parse_brl_amount"}
    /\ brl_in.amount = Dec(123456, 2)
    /\ brl_out.text = <<"R", "$", " ", "1", ".", "2", "3", "4", ",", "5", "6">>
    /\ brl_out.parsed.ok
    /\ brl_out.parsed.value = Dec(123456, 2)

\* the statuses that sequences of at most n permitted transitions reach from S
RECURSIVE ReachableWithin(_, _)
ReachableWithin(S, n) ==
    LET step == S \cup {t \in StatusNames : \E s \in S : can_transition_to(s, t)}
    IN  IF n = 0 \/ step = S THEN S ELSE ReachableWithin(step, n - 1)

Reachable(s) == ReachableWithin({s}, Cardinality(StatusNames))

\* C20: can_be_cancelled is false for every status for which is_final_status
\* is true; a status for which can_be_cancelled is true has a permitted direct
\* transition to Cancelled; and from a status for which can_be_refunded is
\* true Refunded is reachable through transitions that can_transition_to
\* permits.
C20_DerivedAgree ==
    /\ (sm_pred.fn = "can_be_cancelled" /\ is_final_status(sm_pred.self)) =>
          ~sm_pred.result
    /\ (sm_pred.fn = "can_be_cancelled" /\ sm_pred.result) =>
          /\ sm_pred.self # "Cancelled"
          /\ can_transition_to(sm_pred.self, "Cancelled")
    /\ (sm_pred.fn = "can_be_refunded" /\ sm_pred.result) =>
          "Refunded" \in Reachable(sm_pred.self)

\* C20 witness: Processing was found refundable and permitted transitions
\* then took the status to Refunded
C20_Witness ==
    /\ sm_pred = [fn |-> "can_be_refunded", self |-> "Processing", result |-> TRUE]
    /\ sm_status = "Refunded"

\* the statuses from which each lifecycle operation is claimed to succeed
AllowedFrom(op) ==
    CASE op = "start_trial" -> {"Active", "Trialing"}
      [] op = "convert_trial_to_paid" -> {"Trialing"}
      [] op = "pause" -> {"Active", "Trialing"}
      [] op = "resume" -> {"Paused"}
      [] op = "cancel" -> {"Active", "Trialing", "PastDue"}
      [] op = "mark_past_due" -> {"Active"}
      [] OTHER -> SubscriptionStatus

\* a step of the subscription that is a call of op
SubscriptionCall(op) ==
    obj = "Subscription" /\ now' = now /\ sub_result'.op = op

\* C21: start_trial succeeds only from Active or Trialing,
\* convert_trial_to_paid from Trialing, pause from Active or Trialing, resume
\* from Paused, cancel from Active, Trialing or PastDue, mark_past_due from
\* Active; a call in another status returns the state-transition error with
\* the current status as from and leaves every field of the subscription
\* unchanged; a Cancelled subscription never leaves Cancelled.
C21_LifecycleGuards ==
    [][ /\ \A op \in {"start_trial", "convert_trial_to_paid", "pause", "resume",
                      "cancel", "mark_past_due"} :
              SubscriptionCall(op) =>
                  /\ sub_result'.ok => subscription.status \in AllowedFrom(op)
                  /\ subscription.status \notin AllowedFrom(op) =>
                        /\ ~sub_result'.ok
                        /\ sub_result'.from = subscription.status
                        /\ subscription' = subscription
        /\ subscription.status = "Cancelled" => subscription'.status = "Cancelled" ]_vars

\* C21 witness: resume was called on a Cancelled subscription and refused
C21_Witness ==
    /\ obj = "Subscription" /\ subscription.status = "Cancelled"
    /\ sub_result.op = "resume" /\ ~sub_result.ok /\ sub_result.from = "Cancelled"

\* C22: whenever can_resume() is true resume() succeeds, and whenever
\* can_cancel() is true cancel() succeeds.
C22_PredicatesMatch ==
    [][ /\ (SubscriptionCall("resume") /\ can_resume) => sub_result'.ok
        /\ (SubscriptionCall("cancel") /\ can_cancel) => sub_result'.ok ]_vars

\* C23: current_period_start < current_period_end in every state of a
\* subscription that started with it.
C23_PeriodOrdered ==
    obj = "Subscription" =>
        subscription.current_period_start < subscription.current_period_end

\* C24: with amount > 0 and from_id # to_id, atomic_transfer runs the
\* validator on, and debits amount from, the account passed as from_id and
\* credits amount to the account passed as to_id, whatever the order of the
\* two ids, and never calls the updater with -amount on the account passed as
\* to_id; with amount <= 0 or from_id = to_id it returns ValidationFailed and
\* no transaction is started.
C24_TransferDirection ==
    "atomic_transfer" \in xfer_out.called =>
        IF xfer_in.amount <= 0 \/ xfer_in.from_id = xfer_in.to_id
        THEN xfer_out.result = "ValidationFailed" /\ xfer_out.tx = "none"
        ELSE /\ \E i \in 1..Len(xfer_out.log) : xfer_out.log[i].fn = "validator"
             /\ \A i \in 1..Len(xfer_out.log) :
                   LET call == xfer_out.log[i]
                   IN  /\ call.fn = "validator" => call.id = xfer_in.from_id
                       /\ (call.fn = "updater" /\ call.delta = -xfer_in.amount) =>
                              call.id = xfer_in.from_id
                       /\ (call.fn = "updater" /\ call.delta = xfer_in.amount) =>
                              call.id = xfer_in.to_id
             /\ xfer_out.result = "Ok" =>
                   /\ xfer_out.accounts[xfer_in.from_id] =
                          xfer_in.accounts[xfer_in.from_id] - xfer_in.amount
                   /\ xfer_out.accounts[xfer_in.to_id] =
                          xfer_in.accounts[xfer_in.to_id] + xfer_in.amount

\* every call of S waits for a lock that another call of S holds
WaitCycle(S) ==
    \A c \in S :
        /\ must_wait(c)
        /\ \E other \in S \ {c} :
              \E i \in 1..Len(lk_held[other]) : lk_held[other][i] = next_key(c)

\* C25: concurrent with_ordered_locks and atomic_transfer calls over
\* overlapping sets of ids take their locks in ascending id order, and no
\* interleaving reaches a state in which every call of some set waits for a
\* lock held by another call of the set.
C25_NoDeadlock ==
    /\ \A c \in Calls :
          lk_pc[c].at = "locking" =>
              \A i \in 1..(Len(lk_ids[c]) - 1) : ~UuidLess(lk_ids[c][i + 1], lk_ids[c][i])
    /\ \A S \in SUBSET Calls : S # {} => ~WaitCycle(S)

\* the error is a TransactionFailed whose message mentions deadlock or
\* serialization
MentionsDeadlockOrSerialization(e) ==
    /\ e.kind = "TransactionFailed"
    /\ \/ contains(e.msg, <<"d", "e", "a", "d", "l", "o", "c", "k">>)
       \/ contains(e.msg, <<"s", "e", "r", "i", "a", "l", "i", "z">>)

MaxOf(a, b) == IF a > b THEN a ELSE b

\* C26: retry_transaction invokes the operation at least once and at most
\* max(1, max_retries) times, returns the first Ok, returns the error after
\* the invocation that gave it when the error is not a TransactionFailed
\* mentioning deadlock or serialization, returns the last error once
\* max_retries invocations have failed, and ends only by returning.
C26_RetryBounded ==
    /\ rt.calls <= MaxOf(1, rt_in.max_retries)
    /\ rt.pc \in {"idle", "call", "sleeping", "returned"}
    /\ rt.pc = "returned" =>
          /\ rt.calls >= 1
          /\ rt.result = (IF rt.last.ok THEN "Ok" ELSE "Err")
    /\ (rt.calls >= 1 /\ rt.last.ok) => rt.pc = "returned"
    /\ (rt.calls >= 1 /\ ~rt.last.ok /\ ~MentionsDeadlockOrSerialization(rt.last.e)) =>
          rt.pc = "returned"
    /\ (rt.calls >= 1 /\ ~rt.last.ok /\ rt.calls >= rt_in.max_retries) =>
          rt.pc = "returned"

\* C27: from a wallet with balance, pending_balance and tokens >= 0, after
\* any sequence of wallet calls, accepted or rejected, balance,
\* pending_balance and tokens are >= 0 and tokens is at most i64::MAX.
C27_NonNegative ==
    /\ wallet.balance >= 0
    /\ wallet.pending_balance >= 0
    /\ ~i64_lt(wallet.tokens, Near0(0))
    /\ ~i64_lt(NearMax(0), wallet.tokens)

\* C27 witness: tokens were added to a wallet one below i64::MAX and the
\* count stopped at i64::MAX
C27_Witness ==
    /\ w_result = WalletOk("add_tokens")
    /\ wallet.tokens = NearMax(0)

\* balance - lifetime_earnings + lifetime_spending
NetOfLifetime(w) == w.balance - w.lifetime_earnings + w.lifetime_spending

\* C28: balance - lifetime_earnings + lifetime_spending is the same after
\* every wallet operation as before it, accepted or rejected, and
\* clear_pending leaves balance + pending_balance unchanged.
C28_Conserved ==
    [][ /\ NetOfLifetime(wallet') = NetOfLifetime(wallet)
        /\ w_result'.op = "clear_pending" =>
              wallet'.balance + wallet'.pending_balance
                  = wallet.balance + wallet.pending_balance ]_vars

\* C28 witness: a pending amount was cleared into the balance
C28_Witness ==
    /\ w_result = WalletOk("clear_pending")
    /\ wallet.balance > 0 /\ wallet.lifetime_earnings > 0

\* C29: while the wallet is locked no operation other than unlock changes
\* balance, pending_balance or tokens; locked_at and lock_reason are set
\* exactly when locked is true; lock on a locked wallet and unlock on an
\* unlocked wallet are rejected without effect.
C29_LockedFrozen ==
    [][ /\ (wallet.locked /\ ~is_active /\ w_result'.op # "unlock") =>
              /\ wallet'.balance = wallet.balance
              /\ wallet'.pending_balance = wallet.pending_balance
              /\ wallet'.tokens = wallet.tokens
        /\ (wallet'.locked <=> wallet'.locked_at # None)
        /\ (wallet'.locked <=> wallet'.lock_reason # None)
        /\ (wallet.locked /\ w_result'.op = "lock") =>
              (w_result'.result # "Ok" /\ wallet' = wallet)
        /\ (~wallet.locked /\ w_result'.op = "unlock") =>
              (w_result'.result # "Ok" /\ wallet' = wallet) ]_vars

\* C30: from_str terminates for every input string and returns Ok or Err; in
\* particular from_str("pending") returns after finitely many steps.
C30_FromStrReturns ==
    (fs_out.pc = "running") ~> (fs_out.pc = "returned" /\ fs_out.result \in {"Ok", "Err"})

====
